---- MODULE Spec2Model ----
(***************************************************************************)
(* Selective forgetting / structured pruning (SFN, AFN).                   *)
(*                                                                         *)
(* The model follows src/SFN/SFNBase.py and src/AFN.py:                    *)
(*   - the unit index mapping (_get_selected_by_layers,                    *)
(*     _get_indices_of_certain_utype),                                     *)
(*   - the unit selection policies and selective_forget,                   *)
(*   - the parameter snapshot stack (old_params_list, recover_params),     *)
(*   - the sequential forget / evaluate / recover loop.                    *)
(*                                                                         *)
(* Conventions.  Unit indices are 0-based as in the source; TLA+ sequences *)
(* are 1-based, so element u of an array is read at position u + 1.  A     *)
(* weight tensor of shape (d1, .., dk, out) is kept as a matrix of         *)
(* d1 * .. * dk rows and out columns: the source only ever addresses it    *)
(* through its last axis (val_w[:, i], val_w[:, :, :, i]).  A mean over a  *)
(* fixed number n of task rows is kept as the sum (n times the mean), which *)
(* orders the units the same way.  A float rate is kept as the pair        *)
(* numerator / denominator.                                                *)
(***************************************************************************)
EXTENDS Integers, Sequences, FiniteSets, TLC

VARIABLES
    layer_types,               \* self.layer_types
    weight_shapes,             \* shape of "<scope>/weight:0", by layer position
    i_vectors,                 \* what get_importance_vector returns: task -> layer -> vector
    shuffle_perm,              \* the permutation np.random.shuffle yields for the seed used
    layerwise_pruning,         \* self.layerwise_pruning
    tanh_rho,                  \* the values np.tanh yields for the relatedness kernels, in tenths
    params,                    \* live parameters: scope -> [weight, biases]
    old_params_list,           \* self.old_params_list (snapshot stack)
    params_ref,                \* position of the snapshot that self.params is (the same
                               \* dict object), 0 when self.params is a dict of its own
    importance_matrix_tuple,   \* self.importance_matrix_tuple, <<>> while None
    layer_to_removed_unit_set, \* self.layer_to_removed_unit_set
    prediction_history,        \* self.prediction_history[policy]
    pruning_rate_history,      \* self.pruning_rate_history[policy]
    task_to_forget,            \* arguments of sequentially_selective_forget_and_predict
    utype_to_one_step_units,
    steps_to_forget,
    policy,
    fast_skip,
    params_of_utype,           \* unit type -> keyword arguments of selective_forget
    pc,                        \* position in the loop body
    i,                         \* loop variable of the step loop
    k,                         \* position in utype_to_one_step_units.items()
    list_of_unit_indices_by_layer,
    step_start_params,         \* history: live parameters when the current step began
    mutations_since_recover,   \* history: mutations issued since the last recovery
    last_op,                   \* history: the last operation performed
    fx_input,                  \* pure-function harness: the argument
    fx_result                  \* pure-function harness: the result

cfgVars  == <<layer_types, weight_shapes, i_vectors, shuffle_perm, layerwise_pruning,
              tanh_rho>>
argVars  == <<task_to_forget, utype_to_one_step_units, steps_to_forget, policy, fast_skip,
              params_of_utype>>
modelVars == <<params, old_params_list, params_ref, importance_matrix_tuple,
               layer_to_removed_unit_set>>
histVars == <<prediction_history, pruning_rate_history>>
loopVars == <<pc, i, k, list_of_unit_indices_by_layer>>
ghostVars == <<step_start_params, mutations_since_recover, last_op>>
fxVars   == <<fx_input, fx_result>>
vars == <<cfgVars, argVars, modelVars, histVars, loopVars, ghostVars, fxVars>>

-----------------------------------------------------------------------------
(* Bounds of the model *)

MaxSteps == 4      \* steps_to_forget ranges over 0 .. MaxSteps
MaxOneStep == 2    \* units per step and unit type range over 1 .. MaxOneStep
MaxDepth == 3      \* depth of the snapshot stack under SpecStack
MaxLen == 3        \* length of the index arrays given to the index mapping

-----------------------------------------------------------------------------
(* Sequence helpers (numpy array operations used by the source) *)

Range(s) == {s[x] : x \in DOMAIN s}

RECURSIVE SumSeq(_)
SumSeq(s) == IF s = <<>> THEN 0 ELSE Head(s) + SumSeq(Tail(s))

RECURSIVE ProdSeq(_)
ProdSeq(s) == IF s = <<>> THEN 1 ELSE Head(s) * ProdSeq(Tail(s))

RECURSIVE ConcatAll(_)
ConcatAll(ss) == IF ss = <<>> THEN <<>> ELSE Head(ss) \o ConcatAll(Tail(ss))

RECURSIVE MaxSeq(_)
MaxSeq(s) == IF Len(s) = 1 THEN s[1]
             ELSE LET m == MaxSeq(Tail(s)) IN IF Head(s) >= m THEN Head(s) ELSE m

\* a[lo <= a < hi], the boolean-mask selection of numpy: order is kept
MaskRange(a, lo, hi) ==
    LET InRange(x) == x >= lo /\ x < hi IN SelectSeq(a, InRange)

\* a[:n] for n >= 0
Take(a, n) == SubSeq(a, 1, IF n < Len(a) THEN n ELSE Len(a))

\* np.argsort with the default kind is numpy's quicksort on an array of
\* indices: a segment of more than SmallQuicksort + 1 entries is partitioned
\* around the median of its first, middle and last entry, shorter segments
\* are insertion-sorted.  Insertion sort keeps equal keys in the order they
\* have, the partition exchanges them.  Positions and indices are 1-based here.
SmallQuicksort == 16

SwapAt(t, a, b) == [t EXCEPT ![a] = t[b], ![b] = t[a]]

\* do ++pi; while (LT(v[*pi], vp))
ScanUp(keys, t, vp, pi) ==
    CHOOSE q \in (pi + 1)..Len(t) :
       /\ ~(keys[t[q]] < vp)
       /\ \A q2 \in (pi + 1)..(q - 1) : keys[t[q2]] < vp

\* do --pj; while (LT(vp, v[*pj]))
ScanDown(keys, t, vp, pj) ==
    CHOOSE q \in 1..(pj - 1) :
       /\ ~(vp < keys[t[q]])
       /\ \A q2 \in (q + 1)..(pj - 1) : vp < keys[t[q2]]

\* the exchange loop of the partition; the result is t and the final pi
RECURSIVE PartitionLoop(_, _, _, _, _)
PartitionLoop(keys, t, vp, pi, pj) ==
    IF pi >= pj THEN [t |-> t, pi |-> pi]
    ELSE PartitionLoop(keys, SwapAt(t, pi, pj), vp,
                       ScanUp(keys, SwapAt(t, pi, pj), vp, pi),
                       ScanDown(keys, SwapAt(t, pi, pj), vp, pj))

\* the partition of the segment pl..pr: the median of the first, middle and
\* last entry goes to pm (three conditional exchanges), then to pr - 1; after
\* the exchange loop it is put at the final pi
Partition(keys, t, pl, pr) ==
    LET pm == pl + ((pr - pl) \div 2)
        IfLess(x, a, b) == IF keys[x[a]] < keys[x[b]] THEN SwapAt(x, a, b) ELSE x
        t3 == IfLess(IfLess(IfLess(t, pm, pl), pr, pm), pm, pl)
        vp == keys[t3[pm]]
        t4 == SwapAt(t3, pm, pr - 1)
        p == PartitionLoop(keys, t4, vp, ScanUp(keys, t4, vp, pl), ScanDown(keys, t4, vp, pr - 1))
    IN [t |-> SwapAt(p.t, p.pi, pr - 1), pi |-> p.pi]

\* insertion sort of the segment pl..pr
InsertionSort(keys, t, pl, pr) ==
    LET Rank(j) == Cardinality({m \in pl..pr : keys[t[m]] < keys[t[j]]
                                                \/ (keys[t[m]] = keys[t[j]] /\ m < j)})
    IN [q \in 1..Len(t) |->
          IF q < pl \/ q > pr THEN t[q]
          ELSE t[CHOOSE j \in pl..pr : Rank(j) = q - pl]]

RECURSIVE QuickSort(_, _, _, _)
QuickSort(keys, t, pl, pr) ==
    IF pr - pl > SmallQuicksort
    THEN LET p == Partition(keys, t, pl, pr)
         IN QuickSort(keys, QuickSort(keys, p.t, pl, p.pi - 1), p.pi + 1, pr)
    ELSE InsertionSort(keys, t, pl, pr)

\* variant: a stable sort, equal keys in ascending index order
Argsort_stable(keys) ==
    LET t == InsertionSort(keys, [x \in 1..Len(keys) |-> x], 1, Len(keys))
    IN [r \in 1..Len(keys) |-> t[r] - 1]

\* np.argsort(keys): ascending, as 0-based indices
Argsort(keys) ==
    LET t == QuickSort(keys, [x \in 1..Len(keys) |-> x], 1, Len(keys))
    IN [r \in 1..Len(keys) |-> t[r] - 1]

-----------------------------------------------------------------------------
(* Layer types, unit types and scopes *)

get_utype_from_layer_type(layer_type) ==
    CASE layer_type = "conv"  -> "FILTER"
      [] layer_type = "fc"    -> "NEURON"
      [] layer_type = "layer" -> "NEURON"
      [] layer_type = "bn"    -> "NONE"
      [] layer_type = "mask"  -> "NONE"

utypes_of(lts) == [p \in 1..Len(lts) |-> get_utype_from_layer_type(lts[p])]

\* e.g. <<conv, conv, fc, fc, fc>> -> <<0, 1, 0, 1, 2>>
_get_scope_postfixes(lts) ==
    [p \in 1..Len(lts) |-> Cardinality({q \in 1..(p - 1) : lts[q] = lts[p]})]

\* e.g. <<conv, conv, fc>> -> conv1, conv2, fc1; a scope is the pair <<prefix, number>>
_get_scope_list(lts) ==
    [p \in 1..Len(lts) |-> <<lts[p], _get_scope_postfixes(lts)[p] + 1>>]

ScopeSet(lts) == Range(_get_scope_list(lts))

LayerOfScope(lts, scope) == CHOOSE p \in 1..Len(lts) : _get_scope_list(lts)[p] = scope

\* number of units of a weight shape: its last axis
UnitsOf(shape) == shape[Len(shape)]

\* number of rows of the matrix view of a weight: product of all axes but the last
RowsOf(shape) == ProdSeq(SubSeq(shape, 1, Len(shape) - 1))

-----------------------------------------------------------------------------
(* Importance matrices *)

\* np.pad(v, (0, n), 'constant'): n zeros on the right
\* variant: the zeros are put before the vector
PadRight_zeros_first(v, n) == [x \in 1..n |-> 0] \o v

PadRight(v, n) == v \o [x \in 1..n |-> 0]

NumTasks(imt) == Len(imt[1])

\* i_mat.shape[-1] of one layer's matrix
WidthOf(i_mat) == Len(i_mat[1])

Widths(imt) == [l \in 1..Len(imt) |-> WidthOf(imt[l])]

TotalUnits(imt) == SumSeq(Widths(imt))

\* get_importance_matrix: tasks are visited newest first, each vector is
\* zero-padded on the right to the width task T set, and stacked on top, so
\* the rows end in ascending task order.  np.pad raises for a negative width.
get_importance_matrix(ivs) ==
    LET T == Len(ivs)
        L == Len(ivs[T])
        W(l) == Len(ivs[T][l])
    IN IF \E t \in 1..T, l \in 1..L : Len(ivs[t][l]) > W(l)
       THEN [kind |-> "raise", val |-> <<>>]
       ELSE [kind |-> "ok",
             val |-> [l \in 1..L |-> [t \in 1..T |-> PadRight(ivs[t][l], W(l) - Len(ivs[t][l]))]]]

\* save_online_importance_matrix: with no matrices yet (None, here <<>>) the
\* vectors of the task become the matrices (one row each); otherwise every
\* stored matrix is zero-padded on the right by iv.shape[0] - imat.shape[-1]
\* columns and the vector is stacked below it as it is.  np.pad raises
\* ValueError for a negative width, np.vstack for rows of unequal widths;
\* self.importance_matrix_tuple is assigned after the loop over the layers.
save_online_importance_matrix(imt, i_vector_tuple) ==
    IF imt = <<>>
    THEN [kind |-> "ok", val |-> [l \in 1..Len(i_vector_tuple) |-> <<i_vector_tuple[l]>>]]
    ELSE IF \E l \in 1..Len(i_vector_tuple) : Len(i_vector_tuple[l]) < WidthOf(imt[l])
         THEN [kind |-> "raise", val |-> imt]
         ELSE [kind |-> "ok",
               val |-> [l \in 1..Len(i_vector_tuple) |->
                          Append([r \in 1..Len(imt[l]) |->
                                    PadRight(imt[l][r], Len(i_vector_tuple[l]) - WidthOf(imt[l]))],
                                 i_vector_tuple[l])]]

\* np.concatenate(self.importance_matrix_tuple, axis=1)
ConcatLayers(imt) ==
    [t \in 1..NumTasks(imt) |-> ConcatAll([l \in 1..Len(imt) |-> imt[l][t]])]

\* _get_reduced_i_mat: the rows of the tasks in task_ids are deleted (an int
\* task id t is the list <<t>>); with use_complementary_tasks the rows of
\* all other tasks are deleted instead.
_get_reduced_i_mat(imt, task_ids, use_complementary_tasks) ==
    LET i_mat == ConcatLayers(imt)
        n_tasks == Len(i_mat)
        deleted == IF use_complementary_tasks
                   THEN {t \in 1..n_tasks : t \notin Range(task_ids)}
                   ELSE Range(task_ids)
        Keep(t) == t \notin deleted
        kept == SelectSeq([t \in 1..n_tasks |-> t], Keep)
    IN [r \in 1..Len(kept) |-> i_mat[kept[r]]]

Column(mat, u) == [r \in 1..Len(mat) |-> mat[r][u]]

\* get_mean_importance: per unit, the mean over the kept rows, here times
\* the number of kept rows
get_mean_importance(imt, task_ids) ==
    LET i_mat == _get_reduced_i_mat(imt, task_ids, FALSE)
    IN [u \in 1..TotalUnits(imt) |-> SumSeq(Column(i_mat, u))]

get_maximum_importance(imt, task_ids) ==
    LET i_mat == _get_reduced_i_mat(imt, task_ids, FALSE)
    IN [u \in 1..TotalUnits(imt) |-> MaxSeq(Column(i_mat, u))]

-----------------------------------------------------------------------------
(* Unit index mapping *)

\* prev_divider of layer l: the units of the layers before it
PrevDivider(imt, l) == SumSeq(SubSeq(Widths(imt), 1, l - 1))

\* variant: the upper boundary of a layer is included
_get_selected_by_layers_inclusive(imt, selected_indices) ==
    [l \in 1..Len(imt) |->
        LET prev_divider == PrevDivider(imt, l)
            divider == prev_divider + WidthOf(imt[l])
            picked == MaskRange(selected_indices, prev_divider, divider + 1)
        IN [x \in 1..Len(picked) |-> picked[x] - prev_divider]]

\* _get_selected_by_layers: global indices -> per-layer local indices
_get_selected_by_layers(imt, selected_indices) ==
    [l \in 1..Len(imt) |->
        LET prev_divider == PrevDivider(imt, l)
            divider == prev_divider + WidthOf(imt[l])
            picked == MaskRange(selected_indices, prev_divider, divider)
        IN [x \in 1..Len(picked) |-> picked[x] - prev_divider]]

\* The OrderedDict utypes_to_num_units after the first loop of
\* _get_indices_of_certain_utype: keys in insertion order, and the count of
\* each key.  A key met again after another unit type is reset to 0 and
\* keeps its place.
RECURSIVE CountUnitsOfUtypes(_, _, _, _)
CountUnitsOfUtypes(utypes, imt, l, acc) ==
    IF l > Len(imt) \/ l > Len(utypes) THEN acc
    ELSE LET utype == utypes[l]
             fresh == acc.utype_to_loop # utype
             keys == IF fresh /\ utype \notin Range(acc.keys)
                     THEN Append(acc.keys, utype) ELSE acc.keys
             base == IF fresh THEN 0 ELSE acc.num[utype]
         IN CountUnitsOfUtypes(utypes, imt, l + 1,
                [keys |-> keys,
                 num |-> [acc.num EXCEPT ![utype] = base + WidthOf(imt[l])],
                 utype_to_loop |-> utype])

utypes_to_num_units(utypes, imt) ==
    CountUnitsOfUtypes(utypes, imt, 1,
        [keys |-> <<>>,
         num |-> [u \in {"NEURON", "FILTER", "NONE"} |-> 0],
         utype_to_loop |-> "None"])

\* start_idx when the second loop of _get_indices_of_certain_utype reaches
\* key number j: 0 at first, afterwards the count of the key before it
\* (line 483 assigns, it does not add)
StartIdx(d, j) == IF j = 1 THEN 0 ELSE d.num[d.keys[j - 1]]

\* variant: the unit type is not asserted to be among the types of the layers
_get_indices_of_certain_utype_unasserted(imt, lts, ordered_indices, certain_utype) ==
    LET utypes_of_layers == utypes_of(lts)
        d == utypes_to_num_units(utypes_of_layers, imt)
    IN IF Len(utypes_of_layers) - 1 # Len(imt) THEN [kind |-> "raise", val |-> <<>>]
       ELSE IF Cardinality(Range(utypes_of_layers)) = 1 THEN [kind |-> "ok", val |-> ordered_indices]
       ELSE IF \E j \in 1..Len(d.keys) : d.keys[j] = certain_utype
            THEN LET j == CHOOSE j \in 1..Len(d.keys) : d.keys[j] = certain_utype
                     utype_start == StartIdx(d, j)
                     utype_end == utype_start + d.num[certain_utype]
                 IN [kind |-> "ok", val |-> MaskRange(ordered_indices, utype_start, utype_end)]
            ELSE [kind |-> "none", val |-> <<>>]

\* _get_indices_of_certain_utype: result is [kind, val] with kind
\*   "ok"    an array is returned,
\*   "raise" an assertion fails,
\*   "none"  the function falls off its loop and returns None.
_get_indices_of_certain_utype(imt, lts, ordered_indices, certain_utype) ==
    LET utypes_of_layers == utypes_of(lts)
        d == utypes_to_num_units(utypes_of_layers, imt)
    IN IF Len(utypes_of_layers) - 1 # Len(imt) THEN [kind |-> "raise", val |-> <<>>]
       ELSE IF certain_utype \notin Range(utypes_of_layers) THEN [kind |-> "raise", val |-> <<>>]
       ELSE IF Cardinality(Range(utypes_of_layers)) = 1 THEN [kind |-> "ok", val |-> ordered_indices]
       ELSE IF \E j \in 1..Len(d.keys) : d.keys[j] = certain_utype
            THEN LET j == CHOOSE j \in 1..Len(d.keys) : d.keys[j] = certain_utype
                     utype_start == StartIdx(d, j)
                     utype_end == utype_start + d.num[certain_utype]
                 IN [kind |-> "ok", val |-> MaskRange(ordered_indices, utype_start, utype_end)]
            ELSE [kind |-> "none", val |-> <<>>]

\* Python floats are IEEE 754 binary64 with 53 significant bits; a quotient
\* and a product are each rounded to nearest, ties to even.
MantissaBits == 53

\* 2^e mod m by repeated squaring
RECURSIVE PowMod(_, _)
PowMod(e, m) ==
    IF e = 0 THEN 1 % m
    ELSE (((PowMod(e \div 2, m) * PowMod(e \div 2, m)) % m) * (IF e % 2 = 1 THEN 2 ELSE 1)) % m

\* floor(log2(x / y)) for x, y > 0: the exponent of the float x / y
RECURSIVE Log2Floor(_, _, _)
Log2Floor(x, y, p) ==
    IF x >= y THEN (IF x >= 2 * y THEN Log2Floor(x, 2 * y, p + 1) ELSE p)
    ELSE Log2Floor(2 * x, y, p - 1)

\* n / d in floating point (n, d > 0).  With p the exponent and
\* s = MantissaBits - 1 - p, the mantissa is n * 2^s / d rounded to an
\* integer; the float is described by p, the remainder rem of n * 2^s by d
\* and the direction of the rounding: its value is
\* n / d - rem / (d * 2^s) when rounded down, n / d + (d - rem) / (d * 2^s)
\* when rounded up.
FloatDiv(n, d) ==
    LET p == Log2Floor(n, d, 0)
        s == MantissaBits - 1 - p
        rem == (n * PowMod(s, d)) % d
        low_bit == ((((n * PowMod(s, 2 * d)) % (2 * d)) - rem) \div d) % 2
    IN [exp |-> p, rem |-> rem, down |-> 2 * rem < d \/ (2 * rem = d /\ low_bit = 0)]

\* int(sz * q) where q = FloatDiv(n, d) and sz * n = c * d with c >= 1 an
\* integer: the exact product lies sz * q.rem / (d * 2^s) below c when q was
\* rounded down; it is rounded to c when that distance is at most half the
\* spacing of the floats below c, 2^(e - MantissaBits) with e the exponent of
\* c (one less when c is a power of two), and to the float below c otherwise.
RoundedToInteger(sz, d, q, c, e) ==
    IF q.rem = 0 \/ ~q.down THEN c
    ELSE IF e - q.exp > 20 THEN c
    ELSE IF 2 * sz * q.rem <= d * PowMod(e - q.exp, 1048576) THEN c
    ELSE c - 1

\* int(sz * (n / d)): quotient and product in floating point, then truncation
\* (sz, n, d below 2^9).  Unless sz * n / d is an integer the two rounding
\* errors are too small to reach the next integer.
IntOfScaled(sz, n, d) ==
    IF sz = 0 \/ n = 0 THEN 0
    ELSE IF (sz * n) % d # 0 THEN (sz * n) \div d
    ELSE RoundedToInteger(sz, d, FloatDiv(n, d), (sz * n) \div d,
                          IF PowMod(Log2Floor((sz * n) \div d, 1, 0), 1048576) = (sz * n) \div d
                          THEN Log2Floor((sz * n) \div d, 1, 0) - 1
                          ELSE Log2Floor((sz * n) \div d, 1, 0))

\* the rounding left out: exact integer arithmetic
IntOfScaled_exact(sz, n, d) == (sz * n) \div d

\* _get_selected_by_layerwise_pruning: the same fraction of every layer's
\* local ranking, selected_of_layer[:int(sz * ratio)] with
\* ratio = number_to_select / len(asc_sorted_idx) (ZeroDivisionError for an
\* empty ranking)
_get_selected_by_layerwise_pruning(imt, asc_sorted_idx, number_to_select) ==
    LET by_layers == _get_selected_by_layers(imt, asc_sorted_idx)
    IN [l \in 1..Len(by_layers) |->
          Take(by_layers[l], IntOfScaled(Len(by_layers[l]), number_to_select, Len(asc_sorted_idx)))]

\* The tail shared by the get_units_* methods: filter the ranking by unit
\* type, then cut globally or layer by layer.
SelectFromRanking(imt, lts, layerwise, ranking, number_to_select, utype) ==
    LET idx == _get_indices_of_certain_utype(imt, lts, ranking, utype)
    IN IF idx.kind # "ok" THEN [kind |-> "raise", val |-> <<>>]
       ELSE IF ~layerwise
            THEN [kind |-> "ok", val |-> _get_selected_by_layers(imt, Take(idx.val, number_to_select))]
       ELSE IF Len(idx.val) = 0 THEN [kind |-> "raise", val |-> <<>>]
       ELSE [kind |-> "ok", val |-> _get_selected_by_layerwise_pruning(imt, idx.val, number_to_select)]

get_units_by_mean_importance(imt, lts, layerwise, task_ids, number_to_select, utype) ==
    SelectFromRanking(imt, lts, layerwise, Argsort(get_mean_importance(imt, task_ids)),
                      number_to_select, utype)

get_units_by_maximum_importance(imt, lts, layerwise, task_ids, number_to_select, utype) ==
    SelectFromRanking(imt, lts, layerwise, Argsort(get_maximum_importance(imt, task_ids)),
                      number_to_select, utype)

\* variant: the shuffle differs from call to call (no fixed seed)
get_random_units_unseeded(imt, lts, layerwise, perm, number_to_select, utype) ==
    SelectFromRanking(imt, lts, layerwise,
                      [x \in 1..Len(perm) |-> perm[((x - 1 + number_to_select) % Len(perm)) + 1]],
                      number_to_select, utype)

\* get_random_units: range(n) shuffled with the seed n; perm is that shuffle
get_random_units(imt, lts, layerwise, perm, number_to_select, utype) ==
    SelectFromRanking(imt, lts, layerwise, perm, number_to_select, utype)

-----------------------------------------------------------------------------
(* Task-related deviation.  Importances are integers; a mean over R rows is *)
(* kept as R times the mean and a relatedness weight as tenths, so every    *)
(* criterion below is the source's value times 10 * den * R * R, with den   *)
(* the denominator of mixing_coeff and R the number of to-remember rows.    *)

Abs(x) == IF x < 0 THEN -x ELSE x

KernelNames == {"symmetric_task_level", "symmetric_unit_level", "asymmetric_unit_level", "constant"}

\* rho, in tenths: ones for the constant kernel; for the tanh kernels the
\* values of tanh_rho, one value per row for the task-level kernel (np.tile
\* over the units), one value per entry for the unit-level kernels
Rho(relatedness_type, n_rows, n_units) ==
    [r \in 1..n_rows |-> [u \in 1..n_units |->
        CASE relatedness_type = "constant" -> 10
          [] relatedness_type = "symmetric_task_level" ->
                IF r % 2 = 0 THEN tanh_rho.even ELSE tanh_rho.odd
          [] OTHER -> IF (r + u) % 2 = 0 THEN tanh_rho.even ELSE tanh_rho.odd]]

\* assert 0.1 < np.mean(rho) < 0.9
RhoInRange(rho) ==
    LET total == SumSeq([r \in 1..Len(rho) |-> SumSeq(rho[r])])
        cells == Len(rho) * Len(rho[1])
    IN cells < total /\ total < 9 * cells

\* np.mean(rho * np.abs(i_mat - np.mean(i_mat, axis=0)), axis=0), times 10 * R * R
RelatedDeviation(i_mat, rho) ==
    [u \in 1..Len(i_mat[1]) |->
        SumSeq([r \in 1..Len(i_mat) |->
                  rho[r][u] * Abs(Len(i_mat) * i_mat[r][u] - SumSeq(Column(i_mat, u)))])]

\* variant: the constant kernel is weighted like the tanh kernels
get_importance_task_related_deviation_weighted(imt, task_ids, relatedness_type, tau) ==
    [kind |-> "ok",
     val |-> RelatedDeviation(_get_reduced_i_mat(imt, task_ids, FALSE),
                              Rho("symmetric_unit_level", NumTasks(imt) - Cardinality(Range(task_ids)),
                                  TotalUnits(imt)))]

\* get_importance_task_related_deviation: the to-remember rows are the rows
\* of the tasks not in task_ids.  ValueError for an unknown kernel, an
\* AssertionError when the mean weight of a tanh kernel is outside (0.1, 0.9).
get_importance_task_related_deviation(imt, task_ids, relatedness_type, tau) ==
    IF relatedness_type \notin KernelNames THEN [kind |-> "raise", val |-> <<>>]
    ELSE IF relatedness_type # "constant"
            /\ ~RhoInRange(Rho(relatedness_type, NumTasks(imt) - Cardinality(Range(task_ids)),
                               TotalUnits(imt)))
         THEN [kind |-> "raise", val |-> <<>>]
    ELSE [kind |-> "ok",
          val |-> RelatedDeviation(_get_reduced_i_mat(imt, task_ids, FALSE),
                                   Rho(relatedness_type, NumTasks(imt) - Cardinality(Range(task_ids)),
                                       TotalUnits(imt)))]

\* obj_i times 10 * R * R: the mean (kept as R times the mean) or the maximum
ObjectiveScaled(imt, task_ids, main_objective) ==
    LET R == NumTasks(imt) - Cardinality(Range(task_ids))
    IN IF main_objective = "mean"
       THEN [u \in 1..TotalUnits(imt) |-> 10 * R * get_mean_importance(imt, task_ids)[u]]
       ELSE [u \in 1..TotalUnits(imt) |-> 10 * R * R * get_maximum_importance(imt, task_ids)[u]]

\* mixing_coeff * related_deviation + (1 - mixing_coeff) * obj_i, times
\* 10 * den * R * R, for mixing_coeff = num / den
Mixed(coeff, related_deviation, obj_scaled) ==
    [u \in 1..Len(obj_scaled) |->
        coeff.num * related_deviation[u] + (coeff.den - coeff.num) * obj_scaled[u]]

\* obj_i alone, times 10 * den * R * R
Unmixed(coeff, obj_scaled) == [u \in 1..Len(obj_scaled) |-> coeff.den * obj_scaled[u]]

\* variant: the mixing formula is applied whatever the sign of mixing_coeff
Deviated_always_mixed(imt, task_ids, coeff, relatedness_type, tau, main_objective) ==
    IF get_importance_task_related_deviation(imt, task_ids, relatedness_type, tau).kind # "ok"
    THEN [kind |-> "raise", val |-> <<>>]
    ELSE [kind |-> "ok",
          val |-> Mixed(coeff,
                        get_importance_task_related_deviation(imt, task_ids, relatedness_type, tau).val,
                        ObjectiveScaled(imt, task_ids, main_objective))]

\* the vector "deviated" of get_units_with_task_related_deviation (lines 575-579):
\* the mix when mixing_coeff > 0, obj_i alone otherwise
Deviated(imt, task_ids, coeff, relatedness_type, tau, main_objective) ==
    IF coeff.num > 0
    THEN IF get_importance_task_related_deviation(imt, task_ids, relatedness_type, tau).kind # "ok"
         THEN [kind |-> "raise", val |-> <<>>]
         ELSE [kind |-> "ok",
               val |-> Mixed(coeff,
                             get_importance_task_related_deviation(imt, task_ids, relatedness_type, tau).val,
                             ObjectiveScaled(imt, task_ids, main_objective))]
    ELSE [kind |-> "ok", val |-> Unmixed(coeff, ObjectiveScaled(imt, task_ids, main_objective))]

\* the ranking of a criterion that was computed, cut like the other policies
SelectByCriterion(imt, lts, layerwise, crit, number_to_select, utype) ==
    IF crit.kind # "ok" THEN [kind |-> "raise", val |-> <<>>]
    ELSE SelectFromRanking(imt, lts, layerwise, Argsort(crit.val), number_to_select, utype)

\* get_units_with_task_related_deviation; mixing_coeff and tau are given as
\* numbers (not as mappings keyed by the experiment)
get_units_with_task_related_deviation(imt, lts, layerwise, task_ids, number_to_select, utype, coeff, relatedness_type, tau, main_objective) ==
    SelectByCriterion(imt, lts, layerwise,
                      Deviated(imt, task_ids, coeff, relatedness_type, tau, main_objective),
                      number_to_select, utype)

-----------------------------------------------------------------------------
(* Live parameters and the snapshot stack *)

\* get_params (host model): the values of all variables, by value
get_params(live) == live

\* load_params (host model): the variables are created anew from the values
\* of the mapping and self.params is bound to a new dict of them, so it is
\* no longer the object it was (ref 0)
load_params(mapping, ref) == [val |-> mapping, ref |-> 0]

\* old_params_list[idx] with Python's indexing: position in a 1-based sequence,
\* 0 when Python raises IndexError
PyIndex(n, idx) ==
    IF idx >= 0 THEN (IF idx < n THEN idx + 1 ELSE 0)
    ELSE (IF n + idx >= 0 THEN n + idx + 1 ELSE 0)

\* variant: the oldest snapshot is loaded whatever idx is
recover_params_oldest(old_list, idx) ==
    IF Len(old_list) = 0 THEN [kind |-> "raise", val |-> <<>>, ref |-> 0, list |-> old_list]
    ELSE [kind |-> "ok", val |-> old_list[1], ref |-> load_params(old_list[1], 1).ref,
          list |-> old_list]

\* variant: self.params = self.old_params_list[idx] without the reload of
\* line 111: self.params stays the snapshot object
recover_params_keeps_object(old_list, idx) ==
    LET pos == PyIndex(Len(old_list), idx)
    IN IF pos = 0 THEN [kind |-> "raise", val |-> <<>>, ref |-> 0, list |-> old_list]
       ELSE [kind |-> "ok", val |-> old_list[pos], ref |-> pos, list |-> old_list]

\* recover_params(idx): self.params = self.old_params_list[idx] makes
\* self.params the snapshot object at that position (line 108); the session
\* is rebuilt and load_params(self.params) loads the values (line 111).  The
\* list is only read.
recover_params(old_list, idx) ==
    LET pos == PyIndex(Len(old_list), idx)
    IN IF pos = 0 THEN [kind |-> "raise", val |-> <<>>, ref |-> 0, list |-> old_list]
       ELSE LET loaded == load_params(old_list[pos], pos)
            IN [kind |-> "ok", val |-> loaded.val, ref |-> loaded.ref, list |-> old_list]

\* the zeroing loop of _remove_pruning_units on one scope's values: column i
\* of a 2-D or 4-D weight and entry i of the biases, for every index i
ZeroUnits(shape, value, indexes) ==
    LET hit(u) == (u - 1) \in Range(indexes)
        rank_ok == Len(shape) = 2 \/ Len(shape) = 4
    IN [weight |-> [r \in 1..Len(value.weight) |->
                      [u \in 1..Len(value.weight[r]) |->
                          IF rank_ok /\ hit(u) THEN 0 ELSE value.weight[r][u]]],
        biases |-> [u \in 1..Len(value.biases) |->
                      IF hit(u) THEN 0 ELSE value.biases[u]]]

\* variant: the zeroed indexes are not recorded in layer_to_removed_unit_set
_remove_pruning_units_unrecorded(lts, shapes, st, scope, indexes) ==
    IF Len(indexes) = 0 THEN st
    ELSE LET zeroed == ZeroUnits(shapes[LayerOfScope(lts, scope)], st.live[scope], indexes)
         IN [live |-> [st.live EXCEPT ![scope] = zeroed],
             removed |-> st.removed,
             list |-> IF st.ref = 0 THEN st.list
                      ELSE [st.list EXCEPT ![st.ref] = [@ EXCEPT ![scope] = zeroed]],
             ref |-> st.ref]

\* _remove_pruning_units(scope, indexes) on [live, removed, list, ref]: the
\* values are zeroed in the session and self.params[w.name] = w,
\* self.params[b.name] = b (lines 699-700) write into the dict self.params
\* is: when that dict is a snapshot of the list, the snapshot has the
\* zeroed variables under these names too
_remove_pruning_units(lts, shapes, st, scope, indexes) ==
    IF Len(indexes) = 0 THEN st
    ELSE LET zeroed == ZeroUnits(shapes[LayerOfScope(lts, scope)], st.live[scope], indexes)
         IN [live |-> [st.live EXCEPT ![scope] = zeroed],
             removed |-> [st.removed EXCEPT ![scope] = @ \cup Range(indexes)],
             list |-> IF st.ref = 0 THEN st.list
                      ELSE [st.list EXCEPT ![st.ref] = [@ EXCEPT ![scope] = zeroed]],
             ref |-> st.ref]

\* for scope, ni in zip(scope_list, unit_indexes): self._remove_pruning_units(scope, ni)
RECURSIVE RemoveAll(_, _, _, _, _)
RemoveAll(lts, shapes, st, unit_indexes, l) ==
    IF l > Len(unit_indexes) \/ l > Len(lts) THEN st
    ELSE RemoveAll(lts, shapes,
                   _remove_pruning_units(lts, shapes, st, _get_scope_list(lts)[l], unit_indexes[l]),
                   unit_indexes, l + 1)

\* assign_new_session(): the session is rebuilt from the current parameters
assign_new_session(live, ref) == load_params(get_params(live), ref)

-----------
(* selective_forget *)

SupportedPolicies ==
    {"MEAN+DEV", "MAX+DEV", "MAX", "MEAN", "CONST", "RANDOM", "ALL_MEAN", "ALL_CONST"}

\* policy names for which str.isnumeric() holds
NumericPolicies == {"1", "2"}

\* policy.split(":")[0]: the name up to its first colon, for the names the
\* model runs with
PolicyHead(policy_name) == IF policy_name = "MEAN:a" THEN "MEAN" ELSE policy_name

DeviationArgs == {"mixing_coeff", "relatedness_type", "tau"}

\* keyword arguments: the names given and their values
Kwargs(given, num, den, relatedness_type, tau) ==
    [given |-> given, mixing_coeff |-> [num |-> num, den |-> den],
     relatedness_type |-> relatedness_type, tau |-> tau]

\* kwargs = {} (params_of_utype is None)
NoKwargs == Kwargs({}, 0, 1, "constant", 0)

\* the policy dispatch of selective_forget (lines 637-662).  A call of
\* get_units_with_task_related_deviation raises TypeError when a required
\* argument is not among the keyword arguments, or when relatedness_type is
\* given twice (CONST, ALL_CONST).
SelectUnits(imt, lts, layerwise, perm, task_ids, number_of_units, policy_name, utype, kwargs) ==
  LET pol == PolicyHead(policy_name) IN
    CASE pol = "MEAN+DEV" \/ pol \in NumericPolicies ->
            IF kwargs.given # DeviationArgs THEN [kind |-> "raise", val |-> <<>>]
            ELSE get_units_with_task_related_deviation(imt, lts, layerwise, task_ids,
                     number_of_units, utype, kwargs.mixing_coeff, kwargs.relatedness_type,
                     kwargs.tau, "mean")
      [] pol = "MAX+DEV" ->
            IF kwargs.given # DeviationArgs THEN [kind |-> "raise", val |-> <<>>]
            ELSE get_units_with_task_related_deviation(imt, lts, layerwise, task_ids,
                     number_of_units, utype, kwargs.mixing_coeff, kwargs.relatedness_type,
                     kwargs.tau, "max")
      [] pol = "MAX"    -> get_units_by_maximum_importance(imt, lts, layerwise, task_ids, number_of_units, utype)
      [] pol = "MEAN"   -> get_units_by_mean_importance(imt, lts, layerwise, task_ids, number_of_units, utype)
      [] pol = "CONST" ->
            IF kwargs.given # {"mixing_coeff", "tau"} THEN [kind |-> "raise", val |-> <<>>]
            ELSE get_units_with_task_related_deviation(imt, lts, layerwise, task_ids,
                     number_of_units, utype, kwargs.mixing_coeff, "constant", kwargs.tau, "mean")
      [] pol = "RANDOM" -> get_random_units(imt, lts, layerwise, perm, number_of_units, utype)
      [] pol = "ALL_MEAN" ->
            get_units_with_task_related_deviation(imt, lts, layerwise, <<>>,
                     number_of_units, utype, [num |-> 0, den |-> 1], "constant", 0, "mean")
      [] pol = "ALL_CONST" ->
            IF kwargs.given # {"mixing_coeff", "tau"} THEN [kind |-> "raise", val |-> <<>>]
            ELSE get_units_with_task_related_deviation(imt, lts, layerwise, <<>>,
                     number_of_units, utype, kwargs.mixing_coeff, "constant", kwargs.tau, "mean")
      [] OTHER          -> [kind |-> "raise", val |-> <<>>]

\* what selective_forget leaves when an exception ends it after the push
ForgetRaised(live, pushed, ref, imt, removed) ==
    [kind |-> "raise", live |-> live, list |-> pushed, ref |-> ref, imt |-> imt,
     removed |-> removed, unit_indexes |-> <<>>]

\* variant: the snapshot is taken after the units were zeroed
ForgetDone_snapshot_after(st, imt, unit_indexes) ==
    [kind |-> "ok", live |-> st.live,
     list |-> [st.list EXCEPT ![Len(st.list)] = get_params(st.live)],
     ref |-> 0, imt |-> imt, removed |-> st.removed, unit_indexes |-> unit_indexes]

\* self.assign_new_session(); return unit_indexes (lines 670-672)
ForgetDone(st, imt, unit_indexes) ==
    [kind |-> "ok", live |-> assign_new_session(st.live, st.ref).val, list |-> st.list,
     ref |-> assign_new_session(st.live, st.ref).ref, imt |-> imt,
     removed |-> st.removed, unit_indexes |-> unit_indexes]

\* the units selected (sel) are zeroed scope by scope (lines 664-668)
ForgetSelected(live, pushed, ref, imt, removed, sel) ==
    IF sel.kind # "ok" THEN ForgetRaised(live, pushed, ref, imt, removed)
    ELSE ForgetDone(RemoveAll(layer_types, weight_shapes,
                              [live |-> live, removed |-> removed,
                               list |-> pushed, ref |-> ref], sel.val, 1),
                    imt, sel.val)

\* with the importance matrix at hand (built) the units are selected by the policy
ForgetWithMatrix(live, pushed, ref, imt0, removed, number_of_units, utype, kwargs, built) ==
    IF built.kind # "ok" THEN ForgetRaised(live, pushed, ref, imt0, removed)
    ELSE ForgetSelected(live, pushed, ref, built.val, removed,
                        SelectUnits(built.val, layer_types, layerwise_pruning, shuffle_perm,
                                    task_to_forget, number_of_units, policy, utype, kwargs))

\* get_importance_vector (AFN: |hidden activation * gradient| summed over the
\* batches, computed on the variables of the live model): the importances
\* i_vectors of the trained model, and 0 for a unit whose weights and bias
\* are zero, which has no activation
get_importance_vector(live, ivs) ==
    [t \in 1..Len(ivs) |->
       [l \in 1..Len(ivs[t]) |->
          [u \in 1..Len(ivs[t][l]) |->
             IF /\ live[_get_scope_list(layer_types)[l]].biases[u] = 0
                /\ \A r \in 1..Len(live[_get_scope_list(layer_types)[l]].weight) :
                      live[_get_scope_list(layer_types)[l]].weight[r][u] = 0
             THEN 0 ELSE ivs[t][l][u]]]]

\* variant: the importance matrix is built anew at every call
selective_forget_rebuilding(live, old_list, ref, imt0, removed, number_of_units, utype, kwargs) ==
    ForgetWithMatrix(live, Append(old_list, get_params(live)), ref, imt0, removed,
                     number_of_units, utype, kwargs,
                     get_importance_matrix(get_importance_vector(live, i_vectors)))

\* selective_forget as a function of the object's state: the snapshot is
\* pushed first, the importance matrix is built when missing, the units are
\* selected and zeroed, the session is rebuilt.  kind = "raise" when an
\* exception leaves the method; what was done before it stays done.
selective_forget(live, old_list, ref, imt0, removed, number_of_units, utype, kwargs) ==
    ForgetWithMatrix(live, Append(old_list, get_params(live)), ref, imt0, removed,
                     number_of_units, utype, kwargs,
                     IF imt0 = <<>>
                     THEN get_importance_matrix(get_importance_vector(live, i_vectors))
                     ELSE [kind |-> "ok", val |-> imt0])

\* number of units an index tuple names
NumSelected(unit_indexes) == SumSeq([l \in 1..Len(unit_indexes) |-> Len(unit_indexes[l])])

-----------------------------------------------------------------------------
(* get_parameter_level_pruning_rate *)

\* variant: the biases are not counted
ParamsOfLayer_weights_only(shape) == ProdSeq(shape)

\* np.prod of the shapes of "<scope>/weight:0" and "<scope>/biases:0"
ParamsOfLayer(shape) == ProdSeq(shape) + UnitsOf(shape)

\* variant: the share of the parameters that is left
get_parameter_level_pruning_rate_kept(lts, shapes, list_of_indices, utype_list) ==
    LET num_total_parameters ==
            SumSeq([p \in 1..Len(lts) |->
                      IF get_utype_from_layer_type(lts[p]) \in Range(utype_list)
                      THEN ParamsOfLayer(shapes[p]) ELSE 0])
        n_layers == IF list_of_indices = <<>> THEN 0 ELSE Len(list_of_indices[1])
        num_pruned_unit(l) ==
            Len(ConcatAll([x \in 1..Len(list_of_indices) |-> list_of_indices[x][l]]))
        num_total_pruned_parameters ==
            SumSeq([l \in 1..n_layers |->
                      RowsOf(shapes[l]) * num_pruned_unit(l) + num_pruned_unit(l)])
    IN [num |-> num_total_parameters - num_total_pruned_parameters, den |-> num_total_parameters]

get_parameter_level_pruning_rate(lts, shapes, list_of_indices, utype_list) ==
    LET num_total_parameters ==
            SumSeq([p \in 1..Len(lts) |->
                      IF get_utype_from_layer_type(lts[p]) \in Range(utype_list)
                      THEN ParamsOfLayer(shapes[p]) ELSE 0])
        n_layers == IF list_of_indices = <<>> THEN 0 ELSE Len(list_of_indices[1])
        num_pruned_unit(l) ==
            Len(ConcatAll([x \in 1..Len(list_of_indices) |-> list_of_indices[x][l]]))
        num_total_pruned_parameters ==
            SumSeq([l \in 1..n_layers |->
                      RowsOf(shapes[l]) * num_pruned_unit(l) + num_pruned_unit(l)])
    IN [num |-> num_total_pruned_parameters, den |-> num_total_parameters]

\* predict_only_after_training (host model): one score per task; the scores
\* are a function of the live parameters alone, here the number of live
\* non-zero bias entries
predict_only_after_training(live, n_tasks) ==
    LET alive == SumSeq([p \in 1..Len(layer_types) |->
                    Cardinality({u \in 1..UnitsOf(weight_shapes[p]) :
                                    live[_get_scope_list(layer_types)[p]].biases[u] # 0})])
    IN [t \in 1..n_tasks |-> alive]

-----------------------------------------------------------------------------
(* Configurations the model is run on *)

\* networks: layer types (the last layer is the output layer and has no
\* importance matrix) and the shapes of the weights
Nets ==
    { [layer_types |-> <<"layer", "fc", "fc">>,
       weight_shapes |-> << <<2, 2>>, <<2, 3>>, <<3, 2>> >>],
      [layer_types |-> <<"conv", "conv", "fc", "fc">>,
       weight_shapes |-> << <<1, 2, 1, 2>>, <<1, 1, 2, 2>>, <<2, 2>>, <<2, 2>> >>],
      [layer_types |-> <<"conv", "bn", "fc", "fc">>,
       weight_shapes |-> << <<1, 2, 1, 2>>, <<2>>, <<2, 2>>, <<2, 2>> >>] }

NTasks == 3

HiddenWidths(net) == [l \in 1..(Len(net.layer_types) - 1) |-> UnitsOf(net.weight_shapes[l])]

\* importance vectors of the tasks: two value patterns over the global unit index
ImportanceValue(pattern, t, g) ==
    IF pattern = 1 THEN (t + 2 * g) % 4 ELSE ((t * (g + 1)) % 3) + 1

IVectors(net, pattern) ==
    LET w == HiddenWidths(net)
    IN [t \in 1..NTasks |->
         [l \in 1..Len(w) |->
            [u \in 1..w[l] |-> ImportanceValue(pattern, t, SumSeq(SubSeq(w, 1, l - 1)) + u - 1)]]]

\* candidate outcomes of shuffling range(n) with a fixed seed
Reversed(n) == [x \in 1..n |-> n - x]
Rotated(n) == [x \in 1..n |-> x % n]

\* initial values of the variables of the network: non-zero everywhere
InitParams(net) ==
    [scope \in ScopeSet(net.layer_types) |->
        LET shape == net.weight_shapes[LayerOfScope(net.layer_types, scope)]
        IN [weight |-> [r \in 1..RowsOf(shape) |-> [u \in 1..UnitsOf(shape) |-> 1 + ((r + u) % 2)]],
            biases |-> [u \in 1..UnitsOf(shape) |-> 1]]]

PolicyNames == SupportedPolicies \cup NumericPolicies \cup {"BOGUS", "MEAN:a"}

\* the policies the loop is run with
LoopPolicies == {"MEAN", "MAX", "RANDOM", "BOGUS"}

UnitTypeNames == {"NEURON", "FILTER", "NONE"}

\* params_of_utype with the same keyword arguments for every unit type
SameForAll(kwargs) == [utype \in UnitTypeNames |-> kwargs]

\* tanh values of 0.5, mixing_coeff 1/2 with the constant kernel
DefaultNumerics ==
    /\ tanh_rho = [even |-> 5, odd |-> 5]
    /\ params_of_utype = SameForAll(Kwargs(DeviationArgs, 1, 2, "constant", 1))

OneStepChoices ==
    { << <<"NEURON", n>> >> : n \in 1..MaxOneStep }
    \cup { << <<"FILTER", 1>> >> }
    \cup { << <<"FILTER", 1>>, <<"NEURON", n>> >> : n \in 1..MaxOneStep }

TaskChoices == { <<1>>, <<2, 3>> }

Patterns == {1}

\* the object after construction and training of net, with the importance
\* vectors ivs: nothing forgotten yet
InitObjectWith(net, ivs) ==
    /\ layer_types = net.layer_types
    /\ weight_shapes = net.weight_shapes
    /\ i_vectors = ivs
    /\ params = InitParams(net)
    /\ step_start_params = InitParams(net)
    /\ layer_to_removed_unit_set = [scope \in ScopeSet(net.layer_types) |-> {}]
    /\ old_params_list = <<>>
    /\ params_ref = 0
    /\ prediction_history = [pol \in PolicyNames |-> <<>>]
    /\ pruning_rate_history = [pol \in PolicyNames |-> <<>>]
    /\ mutations_since_recover = 0
    /\ last_op = [op |-> "none", idx |-> 0, utype |-> "None", prev |-> "none"]

InitObject(net, pattern) == InitObjectWith(net, IVectors(net, pattern))

\* the policy, and for RANDOM the outcome of the shuffle
InitPolicy(net) ==
    /\ policy \in LoopPolicies
    /\ shuffle_perm \in IF policy = "RANDOM"
                        THEN {Reversed(SumSeq(HiddenWidths(net))), Rotated(SumSeq(HiddenWidths(net)))}
                        ELSE {Reversed(SumSeq(HiddenWidths(net)))}

\* no call of the loop is in progress
NoLoop ==
    /\ utype_to_one_step_units = <<>>
    /\ steps_to_forget = 0
    /\ fast_skip = FALSE
    /\ i = 0
    /\ k = 1
    /\ list_of_unit_indices_by_layer = <<>>

NoFx ==
    /\ fx_input = <<>>
    /\ fx_result = [op |-> "none"]

Init ==
    /\ \E net \in Nets, pattern \in Patterns :
          /\ InitObject(net, pattern)
          /\ InitPolicy(net)
    /\ DefaultNumerics
    /\ importance_matrix_tuple = <<>>
    /\ layerwise_pruning \in BOOLEAN
    /\ task_to_forget \in TaskChoices
    /\ utype_to_one_step_units \in OneStepChoices
    /\ steps_to_forget \in 0..MaxSteps
    /\ fast_skip \in BOOLEAN
    /\ pc = "loop"
    /\ i = 0
    /\ k = 1
    /\ list_of_unit_indices_by_layer = <<>>
    /\ NoFx

-----------------------------------------------------------------------------
(* sequentially_selective_forget_and_predict, lines 715-737 *)

\* variant: every second step of the first half is kept
FastSkipped_mod2(step) == fast_skip /\ 2 * step < steps_to_forget + 1 /\ step % 2 # 0

\* fast_skip and i < 0.5 * (steps_to_forget + 1) and i % 4 != 0
FastSkipped(step) == fast_skip /\ 2 * step < steps_to_forget + 1 /\ step % 4 # 0

\* variant: the step count starts at 1
RequestedUnits_from_one(step, one_step_units) == (step + 1) * one_step_units

\* int(i * one_step_units), the number of units step i asks for
RequestedUnits(step, one_step_units) == step * one_step_units

\* continue: the step is skipped
SkipStep ==
    /\ pc = "loop" /\ i <= steps_to_forget /\ FastSkipped(i)
    /\ i' = i + 1
    /\ UNCHANGED <<pc, k, list_of_unit_indices_by_layer>>
    /\ UNCHANGED <<cfgVars, argVars, modelVars, histVars, ghostVars, fxVars>>

\* list_of_unit_indices_by_layer = []
BeginStep ==
    /\ pc = "loop" /\ i <= steps_to_forget /\ ~FastSkipped(i)
    /\ list_of_unit_indices_by_layer' = <<>>
    /\ k' = 1
    /\ pc' = "forget"
    /\ step_start_params' = params
    /\ UNCHANGED <<i, mutations_since_recover, last_op>>
    /\ UNCHANGED <<cfgVars, argVars, modelVars, histVars, fxVars>>

\* what a call of selective_forget leaves in the object (r is its outcome)
ObjectAfterForget(r) ==
    /\ params' = r.live
    /\ old_params_list' = r.list
    /\ params_ref' = r.ref
    /\ importance_matrix_tuple' = r.imt
    /\ layer_to_removed_unit_set' = r.removed

\* unit_indices_by_layer is appended and the loop goes on, or the exception ends the call
ForgetUtypeOutcome(r, utype, number_of_units) ==
    /\ ObjectAfterForget(r)
    /\ last_op' = [op |-> "forget", idx |-> number_of_units, utype |-> utype, prev |-> last_op.op]
    /\ IF r.kind = "ok"
       THEN /\ list_of_unit_indices_by_layer' = Append(list_of_unit_indices_by_layer, r.unit_indexes)
            /\ mutations_since_recover' =
                  mutations_since_recover + (IF NumSelected(r.unit_indexes) > 0 THEN 1 ELSE 0)
            /\ k' = k + 1
            /\ pc' = IF k = Len(utype_to_one_step_units) THEN "rate" ELSE "forget"
       ELSE /\ pc' = "failed"
            /\ UNCHANGED <<list_of_unit_indices_by_layer, mutations_since_recover, k>>

\* one pass of the loop over utype_to_one_step_units.items():
\* selective_forget(task_to_forget, int(i * one_step_units), policy, utype, **kwargs)
ForgetUtype ==
    /\ pc = "forget"
    /\ ForgetUtypeOutcome(
          selective_forget(params, old_params_list, params_ref, importance_matrix_tuple,
                           layer_to_removed_unit_set,
                           RequestedUnits(i, utype_to_one_step_units[k][2]),
                           utype_to_one_step_units[k][1],
                           params_of_utype[utype_to_one_step_units[k][1]]),
          utype_to_one_step_units[k][1],
          RequestedUnits(i, utype_to_one_step_units[k][2]))
    /\ UNCHANGED <<i, step_start_params>>
    /\ UNCHANGED <<cfgVars, argVars, histVars, fxVars>>

\* pruning_rate = self.get_parameter_level_pruning_rate(..);
\* self.pruning_rate_history[policy].append(pruning_rate)
RecordRate ==
    /\ pc = "rate"
    /\ LET utype_list == [x \in 1..Len(utype_to_one_step_units) |-> utype_to_one_step_units[x][1]]
           pruning_rate == get_parameter_level_pruning_rate(layer_types, weight_shapes,
                                                            list_of_unit_indices_by_layer, utype_list)
       IN pruning_rate_history' = [pruning_rate_history EXCEPT ![policy] = Append(@, pruning_rate)]
    /\ pc' = "predict"
    /\ UNCHANGED <<prediction_history, i, k, list_of_unit_indices_by_layer>>
    /\ UNCHANGED <<cfgVars, argVars, modelVars, ghostVars, fxVars>>

\* pred = self.predict_only_after_training();
\* self.prediction_history[policy].append(pred).  The evaluation is the host
\* model's: it returns the scores or raises.
Predict ==
    /\ pc = "predict"
    /\ \E ok \in BOOLEAN :
          IF ok
          THEN /\ prediction_history' =
                     [prediction_history EXCEPT ![policy] =
                         Append(@, predict_only_after_training(params, NTasks))]
               /\ pc' = "recover"
          ELSE /\ pc' = "failed"
               /\ UNCHANGED prediction_history
    /\ UNCHANGED <<pruning_rate_history, i, k, list_of_unit_indices_by_layer>>
    /\ UNCHANGED <<cfgVars, argVars, modelVars, ghostVars, fxVars>>

\* if i != steps_to_forget: self.recover_recent_params(); then the next i
Recover ==
    /\ pc = "recover"
    /\ IF i # steps_to_forget
       THEN LET r == recover_params(old_params_list, -1)
            IN IF r.kind = "ok"
               THEN /\ params' = r.val
                    /\ old_params_list' = r.list
                    /\ params_ref' = r.ref
                    /\ mutations_since_recover' = 0
                    /\ last_op' = [op |-> "recover", idx |-> -1, utype |-> "None", prev |-> last_op.op]
                    /\ pc' = "loop"
                    /\ i' = i + 1
               ELSE /\ pc' = "failed"
                    /\ UNCHANGED <<params, old_params_list, params_ref, mutations_since_recover,
                                   last_op, i>>
       ELSE /\ pc' = "loop"
            /\ i' = i + 1
            /\ UNCHANGED <<params, old_params_list, params_ref, mutations_since_recover,
                           last_op>>
    /\ UNCHANGED <<importance_matrix_tuple, layer_to_removed_unit_set, k,
                   list_of_unit_indices_by_layer, step_start_params>>
    /\ UNCHANGED <<cfgVars, argVars, histVars, fxVars>>

\* range(steps_to_forget + 1) is exhausted
LoopExit ==
    /\ pc = "loop" /\ i > steps_to_forget
    /\ pc' = "done"
    /\ UNCHANGED <<i, k, list_of_unit_indices_by_layer>>
    /\ UNCHANGED <<cfgVars, argVars, modelVars, histVars, ghostVars, fxVars>>

Next == SkipStep \/ BeginStep \/ ForgetUtype \/ RecordRate \/ Predict \/ Recover \/ LoopExit

Spec == Init /\ [][Next]_vars

-----------------------------------------------------------------------------
(* Properties of the sequential loop *)

\* the policy's two history lists
RateHistory == pruning_rate_history[policy]
PredHistory == prediction_history[policy]

\* steps among 0 .. step - 1 that are not fast-skipped: step j is skipped
\* when fast_skip is set, j < (steps_to_forget + 1) / 2 and j is no multiple of 4
ExecutedBefore(step) ==
    Cardinality({j \in 0..(step - 1) :
                    ~(fast_skip /\ 2 * j < steps_to_forget + 1 /\ j % 4 # 0)})

\* units of the hidden layers whose bias is zero in the live model
ZeroedUnits ==
    SumSeq([l \in 1..(Len(layer_types) - 1) |->
              Cardinality({u \in 1..UnitsOf(weight_shapes[l]) :
                              params[_get_scope_list(layer_types)[l]].biases[u] = 0})])

\* hidden units of a unit type
UnitsOfType(utype) ==
    SumSeq([l \in 1..(Len(layer_types) - 1) |->
              IF get_utype_from_layer_type(layer_types[l]) = utype
              THEN UnitsOf(weight_shapes[l]) ELSE 0])

\* C1: whenever the loop is back at its head after a step i < steps_to_forget
\* (the step's recovery has run), the live parameters equal the live
\* parameters as they were when that step began, for any number of unit types.
C1_RecoveredEqualsStepStart ==
    (pc = "loop" /\ i <= steps_to_forget) => params = step_start_params

\* C4: the count handed to selective_forget at step i is i times the
\* one-step count of the unit type; with {NEURON: 2}, selection over the whole
\* ranking and at least 4 NEURON units, steps 0, 1, 2 select and zero 0, 2, 4
\* units; step 0 zeroes nothing and records the rate 0 / total.
C4_RequestedAndPrunedCounts ==
    /\ (last_op.op = "forget" /\ pc \in {"forget", "rate", "predict", "recover"}) =>
          \E x \in 1..Len(utype_to_one_step_units) :
             /\ utype_to_one_step_units[x][1] = last_op.utype
             /\ last_op.idx = i * utype_to_one_step_units[x][2]
    /\ ( /\ utype_to_one_step_units = << <<"NEURON", 2>> >>
         /\ ~layerwise_pruning
         /\ UnitsOfType("NEURON") >= 4
         /\ pc \in {"rate", "predict", "recover"}
         /\ i <= 2 )
       => /\ NumSelected(list_of_unit_indices_by_layer[1]) = 2 * i
          /\ ZeroedUnits = 2 * i
    /\ (pc \in {"predict", "recover"} /\ i = 0)
       => /\ params = step_start_params
          /\ ZeroedUnits = 0
          /\ RateHistory[Len(RateHistory)].num = 0
          /\ RateHistory[Len(RateHistory)].den > 0

C4_Witness ==
    /\ utype_to_one_step_units = << <<"NEURON", 2>> >>
    /\ ~layerwise_pruning
    /\ pc = "recover" /\ i = 2
    /\ ZeroedUnits = 4
    /\ Len(RateHistory) = 3
    /\ RateHistory[1].num = 0

\* C5: when a step fails (selection, mutation or evaluation raises), neither
\* history list holds an entry for that step: both have one entry per step
\* executed before it.
C5_FailedStepLeavesNoEntry ==
    pc = "failed" =>
       /\ Len(RateHistory) = ExecutedBefore(i)
       /\ Len(PredHistory) = ExecutedBefore(i)

\* C6: at most one mutation is outstanding at any time: no mutation is
\* issued while an earlier one has not been recovered.
C6_NoTwoMutationsWithoutRecovery == mutations_since_recover <= 1

\* with fast_skip, step i is skipped exactly when i < (steps_to_forget + 1) / 2
\* and i is no multiple of 4; a skipped step only advances i; a step that is
\* not skipped is entered
C7_SkipStep ==
    (pc = "loop" /\ i <= steps_to_forget) =>
        IF fast_skip /\ 2 * i < steps_to_forget + 1 /\ i % 4 # 0
        THEN /\ pc' = "loop" /\ i' = i + 1
             /\ UNCHANGED <<params, old_params_list, layer_to_removed_unit_set,
                            pruning_rate_history, prediction_history>>
        ELSE /\ pc' = "forget" /\ i' = i
             /\ UNCHANGED <<pruning_rate_history, prediction_history>>

\* when the loop is at its head each list holds exactly one entry per step
\* that was not skipped, and one snapshot was pushed per such step and unit type
C7_Counts ==
    pc \in {"loop", "done"} =>
       /\ Len(RateHistory) = ExecutedBefore(i)
       /\ Len(PredHistory) = ExecutedBefore(i)
       /\ Len(old_params_list) = ExecutedBefore(i) * Len(utype_to_one_step_units)

\* C7: fast-skip: every loop-head step obeys C7_SkipStep and the counts of
\* C7_Counts hold throughout
C7_FastSkip == [][C7_SkipStep]_vars /\ []C7_Counts

C7_Witness ==
    /\ fast_skip /\ steps_to_forget = 4 /\ pc = "done"
    /\ Len(RateHistory) = 3 /\ Len(PredHistory) = 3

-----------------------------------------------------------------------------
(* The snapshot stack driven call by call: selective_forget,               *)
(* recover_recent_params, recover_old_params and clear_experiments in any  *)
(* order, as a caller of the object may issue them.                        *)

InitStack ==
    /\ \E net \in Nets, pattern \in Patterns :
          /\ InitObject(net, pattern)
          /\ shuffle_perm = Reversed(SumSeq(HiddenWidths(net)))
    /\ policy \in {"MEAN", "BOGUS", "1", "MEAN:a"}
    /\ DefaultNumerics
    /\ importance_matrix_tuple = <<>>
    /\ layerwise_pruning = FALSE
    /\ task_to_forget = <<1>>
    /\ NoLoop
    /\ pc = "api"
    /\ NoFx

\* the object and the history of operations after a call from outside the loop
CallOutcome(r, utype, number_of_units) ==
    /\ ObjectAfterForget(r)
    /\ last_op' = [op |-> IF r.kind = "ok" THEN "forget" ELSE "forget_raised",
                   idx |-> number_of_units, utype |-> utype, prev |-> last_op.op]
    /\ mutations_since_recover' =
          mutations_since_recover + (IF NumSelected(r.unit_indexes) > 0 THEN 1 ELSE 0)

\* selective_forget(task_to_forget, n, policy, utype, **kwargs)
CallSelectiveForget ==
    /\ pc = "api"
    /\ Len(old_params_list) < MaxDepth
    /\ \E n \in 0..MaxOneStep, utype \in {"NEURON", "FILTER"} :
          CallOutcome(selective_forget(params, old_params_list, params_ref,
                                       importance_matrix_tuple, layer_to_removed_unit_set,
                                       n, utype, params_of_utype[utype]),
                      utype, n)
    /\ UNCHANGED <<step_start_params>>
    /\ UNCHANGED <<cfgVars, argVars, histVars, loopVars, fxVars>>

\* the effect of recover_params(idx) on the object
RecoverParams(idx) ==
    LET r == recover_params(old_params_list, idx)
    IN IF r.kind = "ok"
       THEN /\ params' = r.val
            /\ old_params_list' = r.list
            /\ params_ref' = r.ref
            /\ mutations_since_recover' = 0
            /\ last_op' = [op |-> "recover", idx |-> idx, utype |-> "None", prev |-> last_op.op]
       ELSE /\ last_op' = [op |-> "recover_raised", idx |-> idx, utype |-> "None", prev |-> last_op.op]
            /\ UNCHANGED <<params, old_params_list, params_ref, mutations_since_recover>>

\* recover_recent_params(): self.recover_params(-1)
CallRecoverRecent ==
    /\ pc = "api"
    /\ RecoverParams(-1)
    /\ UNCHANGED <<importance_matrix_tuple, layer_to_removed_unit_set, step_start_params>>
    /\ UNCHANGED <<cfgVars, argVars, histVars, loopVars, fxVars>>

\* recover_old_params(): self.recover_params(0)
CallRecoverOld ==
    /\ pc = "api"
    /\ RecoverParams(0)
    /\ UNCHANGED <<importance_matrix_tuple, layer_to_removed_unit_set, step_start_params>>
    /\ UNCHANGED <<cfgVars, argVars, histVars, loopVars, fxVars>>

\* clear_experiments(): the removed-unit sets are emptied, then recover_old_params()
CallClearExperiments ==
    /\ pc = "api"
    /\ layer_to_removed_unit_set' = [scope \in DOMAIN layer_to_removed_unit_set |-> {}]
    /\ RecoverParams(0)
    /\ UNCHANGED <<importance_matrix_tuple, step_start_params>>
    /\ UNCHANGED <<cfgVars, argVars, histVars, loopVars, fxVars>>

NextStack == CallSelectiveForget \/ CallRecoverRecent \/ CallRecoverOld \/ CallClearExperiments

SpecStack == InitStack /\ [][NextStack]_vars

\* C2: after recover_params(-1) the live parameters are the snapshot on top of
\* the stack (the last one pushed), after recover_params(0) they are the
\* snapshot at the bottom (the first one pushed), at every depth >= 1.
C2_RecoverRestoresSnapshotAtIndex ==
    last_op.op = "recover" =>
       /\ Len(old_params_list) >= 1
       /\ last_op.idx = -1 => params = old_params_list[Len(old_params_list)]
       /\ last_op.idx = 0 => params = old_params_list[1]

\* push(s); mutate; push(s2); mutate; recover(-1): the live parameters are s2, not s
C2_Witness ==
    /\ last_op.op = "recover" /\ last_op.idx = -1 /\ last_op.prev = "forget"
    /\ Len(old_params_list) = 2
    /\ old_params_list[1] # old_params_list[2]
    /\ params = old_params_list[2]

\* no step changes, removes or moves a snapshot that is on the stack
C3_Step ==
    \A p \in 1..Len(old_params_list) :
       /\ p <= Len(old_params_list')
       /\ old_params_list'[p] = old_params_list[p]

\* C3: a snapshot, once pushed, keeps its position, names and values through
\* every later push, prune and recover
C3_SnapshotsImmutable == [][C3_Step]_vars

\* a snapshot was recovered, then units were zeroed again: the live
\* parameters differ from the recovered snapshot, which is still on the stack
C3_Witness ==
    /\ last_op.op = "forget" /\ last_op.prev = "recover"
    /\ Len(old_params_list) >= 2
    /\ params # old_params_list[Len(old_params_list)]
    /\ old_params_list[Len(old_params_list)] = old_params_list[Len(old_params_list) - 1]

-----------------------------------------------------------------------------
(* The unit index mapping applied to index arrays: _get_selected_by_layers *)
(* and _get_indices_of_certain_utype as functions of their argument.       *)

\* arrays of global unit indices: every array of up to MaxLen indices, and
\* two orderings of the full range
IndexArrays(total) ==
    UNION {[1..n -> 0..(total - 1)] : n \in 0..MaxLen}
    \cup {[x \in 1..total |-> x - 1], Reversed(total)}

\* one hidden conv layer of 2 filters and an fc output layer: NEURON is the
\* unit type of the final layer only
NetConvFc ==
    [layer_types |-> <<"conv", "fc">>,
     weight_shapes |-> << <<1, 1, 1, 2>>, <<2, 2>> >>]

InitIdx ==
    /\ \E net \in Nets \cup {NetConvFc}, pattern \in Patterns :
          /\ InitObject(net, pattern)
          /\ shuffle_perm = Reversed(SumSeq(HiddenWidths(net)))
          /\ importance_matrix_tuple = get_importance_matrix(IVectors(net, pattern)).val
          /\ fx_input \in IndexArrays(SumSeq(HiddenWidths(net)))
    /\ policy = "MEAN"
    /\ DefaultNumerics
    /\ layerwise_pruning = FALSE
    /\ task_to_forget = <<1>>
    /\ NoLoop
    /\ pc = "fx"
    /\ fx_result = [op |-> "none"]

\* the per-layer arrays put back: offsets re-added, layers concatenated
ConcatOf(imt, by_layers) ==
    ConcatAll([l \in 1..Len(by_layers) |->
                 [x \in 1..Len(by_layers[l]) |-> by_layers[l][x] + PrevDivider(imt, l)]])

ApplySplit ==
    /\ pc = "fx" /\ fx_result.op = "none"
    /\ fx_result' = [op |-> "split",
                     val |-> _get_selected_by_layers(importance_matrix_tuple, fx_input)]
    /\ UNCHANGED <<fx_input, cfgVars, argVars, modelVars, histVars, loopVars, ghostVars>>

ApplyResplit ==
    /\ pc = "fx" /\ fx_result.op = "split"
    /\ fx_result' = [op |-> "resplit",
                     first |-> fx_result.val,
                     val |-> _get_selected_by_layers(importance_matrix_tuple,
                                ConcatOf(importance_matrix_tuple, fx_result.val))]
    /\ UNCHANGED <<fx_input, cfgVars, argVars, modelVars, histVars, loopVars, ghostVars>>

ApplyFilter ==
    /\ pc = "fx" /\ fx_result.op = "none"
    /\ \E utype \in {"NEURON", "FILTER", "NONE"} :
          fx_result' = [op |-> "filter", utype |-> utype,
                        res |-> _get_indices_of_certain_utype(importance_matrix_tuple, layer_types,
                                                              fx_input, utype)]
    /\ UNCHANGED <<fx_input, cfgVars, argVars, modelVars, histVars, loopVars, ghostVars>>

\* one call per unit type the layer types declare
ApplyFilterAll ==
    /\ pc = "fx" /\ fx_result.op = "none"
    /\ fx_result' = [op |-> "filter_all",
                     res |-> [utype \in Range(utypes_of(layer_types)) |->
                                _get_indices_of_certain_utype(importance_matrix_tuple, layer_types,
                                                              fx_input, utype)]]
    /\ UNCHANGED <<fx_input, cfgVars, argVars, modelVars, histVars, loopVars, ghostVars>>

NextIdx == ApplySplit \/ ApplyResplit \/ ApplyFilter \/ ApplyFilterAll

SpecIdx == InitIdx /\ [][NextIdx]_vars

\* layer boundaries, from the unit counts of the hidden layers
NumHidden == Len(layer_types) - 1
HiddenUnits(l) == UnitsOf(weight_shapes[l])
LayerStart(l) == SumSeq([m \in 1..(l - 1) |-> HiddenUnits(m)])
LayerEnd(l) == LayerStart(l) + HiddenUnits(l)
AllUnits == LayerEnd(NumHidden)

\* positions of x whose element lies in [lo, hi), in ascending order
PositionsIn(x, lo, hi) == {q \in 1..Len(x) : x[q] >= lo /\ x[q] < hi}

\* y is the subsequence of x of the elements in [lo, hi), each minus shift
IsBandSubsequence(y, x, lo, hi, shift) ==
    /\ Len(y) = Cardinality(PositionsIn(x, lo, hi))
    /\ \A q \in PositionsIn(x, lo, hi) :
          y[Cardinality({q2 \in PositionsIn(x, lo, hi) : q2 <= q})] = x[q] - shift

\* C8: splitting an index array by layer loses and duplicates nothing: layer
\* l receives exactly the elements in its range, in their order, minus the
\* layer's start; re-adding the starts and splitting again gives the same
\* per-layer arrays.
C8_SplitByLayerExact ==
    /\ fx_result.op \in {"split", "resplit"} =>
          /\ Len(fx_result.val) = NumHidden
          /\ \A l \in 1..NumHidden :
                IsBandSubsequence(fx_result.val[l], fx_input, LayerStart(l), LayerEnd(l), LayerStart(l))
          /\ SumSeq([l \in 1..NumHidden |-> Len(fx_result.val[l])]) = Len(fx_input)
    /\ fx_result.op = "resplit" => fx_result.val = fx_result.first

C8_Witness ==
    /\ fx_result.op = "resplit"
    /\ Len(fx_input) = 3
    /\ Cardinality({l \in 1..NumHidden : Len(fx_result.val[l]) > 0}) >= 2
    /\ fx_input[1] > fx_input[2]

\* first hidden layer of a unit type, and the band the claim gives the type:
\* it starts after all units of the layers before it and holds the type's units
FirstLayerOf(utype) ==
    CHOOSE l \in 1..NumHidden :
       /\ get_utype_from_layer_type(layer_types[l]) = utype
       /\ \A m \in 1..(l - 1) : get_utype_from_layer_type(layer_types[m]) # utype
BandStart(utype) == LayerStart(FirstLayerOf(utype))
BandEnd(utype) == BandStart(utype) + UnitsOfType(utype)

IsFullRange(x) == Len(x) = AllUnits /\ Range(x) = 0..(AllUnits - 1)

\* C9: filtering the full index range once per declared unit type returns
\* every index for exactly one unit type.
C9_FilterPartitionsFullRange ==
    (fx_result.op = "filter_all" /\ IsFullRange(fx_input)) =>
       \A g \in 0..(AllUnits - 1) :
          Cardinality({utype \in DOMAIN fx_result.res :
                          /\ fx_result.res[utype].kind = "ok"
                          /\ g \in Range(fx_result.res[utype].val)}) = 1

\* C10: the result for a unit type is the subsequence of the indices lying in
\* the type's band [start, end); with a single unit type it is the input.
C10_FilterReturnsBand ==
    (fx_result.op = "filter" /\ fx_result.res.kind = "ok") =>
       /\ fx_result.utype \in {get_utype_from_layer_type(layer_types[l]) : l \in 1..NumHidden} =>
             IsBandSubsequence(fx_result.res.val, fx_input,
                               BandStart(fx_result.utype), BandEnd(fx_result.utype), 0)
       /\ Cardinality(Range(utypes_of(layer_types))) = 1 => fx_result.res.val = fx_input

-----------------------------------------------------------------------------
(* The pruning rate the loop records *)

\* the entries of the live parameters of one layer: weight cells and biases
CellsOfLayer(p) ==
    LET var == params[_get_scope_list(layer_types)[p]]
    IN Len(var.weight) * Len(var.weight[1]) + Len(var.biases)

\* the entries that belong to one unit of layer p: its weight column and its bias
CellsOfUnit(p) == Len(params[_get_scope_list(layer_types)[p]].weight) + 1

\* the unit types the call of the loop is about
UtypesOfInterest == {utype_to_one_step_units[x][1] : x \in 1..Len(utype_to_one_step_units)}

\* units of layer l the step selected, over all unit types of the step
SelectedInLayer(l) ==
    SumSeq([x \in 1..Len(list_of_unit_indices_by_layer) |->
               Len(list_of_unit_indices_by_layer[x][l])])

\* C11: the recorded pruning rate is numerator / denominator: the numerator
\* sums, over the layers, the selected units of the layer times (the product
\* of all weight dimensions except the last, plus one); the denominator is
\* the number of parameters of all layers whose unit type is of interest.
\* 2-D and 4-D weights are counted alike.
C11_RateIsPrunedOverTotal ==
    pc = "predict" =>
       /\ RateHistory[Len(RateHistory)].num =
             SumSeq([l \in 1..NumHidden |-> SelectedInLayer(l) * CellsOfUnit(l)])
       /\ \A l \in 1..NumHidden :
             CellsOfUnit(l) = ProdSeq(SubSeq(weight_shapes[l], 1, Len(weight_shapes[l]) - 1)) + 1
       /\ RateHistory[Len(RateHistory)].den =
             SumSeq([p \in 1..Len(layer_types) |->
                       IF get_utype_from_layer_type(layer_types[p]) \in UtypesOfInterest
                       THEN CellsOfLayer(p) ELSE 0])

\* a rate over a 4-D and a 2-D layer, with a layer outside the unit types of interest
C11_Witness ==
    /\ pc = "predict"
    /\ \E l \in 1..NumHidden : Len(weight_shapes[l]) = 4 /\ SelectedInLayer(l) > 0
    /\ \E p \in 1..Len(layer_types) : get_utype_from_layer_type(layer_types[p]) \notin UtypesOfInterest
    /\ RateHistory[Len(RateHistory)].num > 0
    /\ RateHistory[Len(RateHistory)].num < RateHistory[Len(RateHistory)].den

\* the elements of s at the positions in keep, in their order
RestrictSeq(s, keep) ==
    LET F[q \in 0..Len(s)] ==
            IF q = 0 THEN <<>>
            ELSE IF q \in keep THEN Append(F[q - 1], s[q]) ELSE F[q - 1]
    IN F[Len(s)]

\* the positions <<x, l, q>> of the selection of the step: entry q of layer
\* l in the tuple of unit type number x
SelectedPositions ==
    {pos \in (1..Len(list_of_unit_indices_by_layer)) \X (1..NumHidden) \X (1..MaxSteps * MaxOneStep) :
        pos[3] <= Len(list_of_unit_indices_by_layer[pos[1]][pos[2]])}

\* the selection of the step cut down to the positions in keep
SubSelection(keep) ==
    [x \in 1..Len(list_of_unit_indices_by_layer) |->
       [l \in 1..NumHidden |->
          RestrictSeq(list_of_unit_indices_by_layer[x][l],
                      {q \in 1..Len(list_of_unit_indices_by_layer[x][l]) : <<x, l, q>> \in keep})]]

\* a / b <= c / d for rates [num, den] with positive denominators
RateLeq(a, b) == a.num * b.den <= b.num * a.den

\* the unit types of the call in the order of the dict
UtypeList == [x \in 1..Len(utype_to_one_step_units) |-> utype_to_one_step_units[x][1]]

\* C13: for fixed layers and shapes the pruning rate is monotone in the
\* selection: a selection whose every layer's index set is a subset of the
\* step's has a rate that is at most the step's; and the rates recorded
\* over the steps of the sweep are non-decreasing in the step index.
C13_RateMonotone ==
    /\ pc = "predict" =>
          \A keep \in SUBSET SelectedPositions :
             RateLeq(get_parameter_level_pruning_rate(layer_types, weight_shapes,
                                                      SubSelection(keep), UtypeList),
                     RateHistory[Len(RateHistory)])
    /\ \A a \in 1..Len(RateHistory) : \A b \in a..Len(RateHistory) :
          RateLeq(RateHistory[a], RateHistory[b])

\* a sweep of three recorded steps with strictly growing rates, the last
\* selection with units in two layers
C13_Witness ==
    /\ pc = "predict"
    /\ Len(RateHistory) = 3
    /\ RateHistory[1].num < RateHistory[2].num
    /\ RateHistory[2].num < RateHistory[3].num
    /\ Cardinality({l \in 1..NumHidden : SelectedInLayer(l) > 0}) >= 2
    /\ Cardinality(SelectedPositions) >= 3

-----------------------------------------------------------------------------
(* Unit selection, ranking criterion, deviation, pruning rate and the       *)
(* construction of the importance matrices, as functions of their arguments *)

\* two hidden layers of 4 and 6 units
Net46 ==
    [layer_types |-> <<"fc", "fc", "fc">>,
     weight_shapes |-> << <<1, 4>>, <<4, 6>>, <<6, 1>> >>]

\* one hidden layer of 22 units
Net22 ==
    [layer_types |-> <<"fc", "fc">>,
     weight_shapes |-> << <<1, 22>>, <<22, 1>> >>]

\* importances of ones, except task 2 with 5 on the units of the first layer
OnesButTask2(net) ==
    LET w == HiddenWidths(net)
    IN [t \in 1..NTasks |->
         [l \in 1..Len(w) |-> [u \in 1..w[l] |-> IF t = 2 /\ l = 1 THEN 5 ELSE 1]]]

\* importances with a few distinct values over many units
FewValues(net) ==
    LET w == HiddenWidths(net)
    IN [t \in 1..NTasks |->
         [l \in 1..Len(w) |-> [u \in 1..w[l] |-> IF t = 1 THEN 1 ELSE 1 + ((u * u) % 7) \div 3]]]

SelTasks == { <<1>>, <<2>>, <<2, 3>> }

TanhChoices == { [even |-> 5, odd |-> 5], [even |-> 2, odd |-> 8], [even |-> 0, odd |-> 1] }

\* mixing_coeff: -1/2, 0, 1/2 and 1
CoeffChoices == { <<-1, 2>>, <<0, 1>>, <<1, 2>>, <<1, 1>> }

PlainPolicies == {"MEAN", "MAX", "RANDOM", "ALL_MEAN", "BOGUS"}
MixingPolicies == {"MEAN+DEV", "MAX+DEV", "1"}
ConstPolicies == {"CONST", "ALL_CONST"}

SelConfig(net, ivs, tasks, pol, lw, kwargs, tanh, count, utype) ==
    [net |-> net, ivs |-> ivs, tasks |-> tasks, policy |-> pol, layerwise |-> lw,
     kwargs |-> kwargs, tanh |-> tanh, count |-> count, utype |-> utype]

\* policies without keyword arguments, on every network
PlainConfigs ==
    { SelConfig(net, IVectors(net, pat), tasks, pol, lw, NoKwargs, [even |-> 5, odd |-> 5], count, utype) :
        net \in Nets \cup {Net46}, pat \in {1, 2}, tasks \in SelTasks, pol \in PlainPolicies,
        lw \in BOOLEAN, count \in 0..MaxLen, utype \in {"NEURON", "FILTER"} }

\* the policies that mix a deviation in, with every kernel and coefficient
MixingConfigs ==
    { SelConfig(net, IVectors(net, pat), tasks, pol, FALSE,
                Kwargs(DeviationArgs, coeff[1], coeff[2], kernel, 1), tanh, 2, "NEURON") :
        net \in Nets, pat \in {1, 2}, tasks \in SelTasks, pol \in MixingPolicies,
        coeff \in CoeffChoices, kernel \in KernelNames \cup {"bogus"}, tanh \in TanhChoices }

\* CONST and ALL_CONST: the kernel is not among the keyword arguments
ConstConfigs ==
    { SelConfig(net, IVectors(net, pat), tasks, pol, lw,
                Kwargs(given, coeff[1], coeff[2], "constant", tau), [even |-> 0, odd |-> 1], 2, "NEURON") :
        net \in Nets, pat \in {1, 2}, tasks \in SelTasks, pol \in ConstPolicies, lw \in BOOLEAN,
        given \in {{"mixing_coeff", "tau"}, DeviationArgs}, coeff \in CoeffChoices, tau \in {0, 1} }

\* many units with equal importances, and the 4 + 6 network with ones
TiedConfigs ==
    { SelConfig(net, IF ones THEN OnesButTask2(net) ELSE FewValues(net), <<2>>, "MEAN", lw,
                NoKwargs, [even |-> 5, odd |-> 5], count, "NEURON") :
        net \in {Net22, Net46}, ones \in BOOLEAN, lw \in BOOLEAN, count \in {2, 3, 15} }

SelConfigs == PlainConfigs \cup MixingConfigs \cup ConstConfigs \cup TiedConfigs

\* the object with its matrices built, and a request for units
InitSelect ==
    \E c \in SelConfigs :
       /\ InitObjectWith(c.net, c.ivs)
       /\ importance_matrix_tuple = get_importance_matrix(c.ivs).val
       /\ shuffle_perm = Rotated(SumSeq(HiddenWidths(c.net)))
       /\ task_to_forget = c.tasks
       /\ policy = c.policy
       /\ layerwise_pruning = c.layerwise
       /\ params_of_utype = SameForAll(c.kwargs)
       /\ tanh_rho = c.tanh
       /\ fx_input = [kind |-> "select", count |-> c.count, utype |-> c.utype]

\* the ascending sequences over a set of indices
RECURSIVE AscendingSeq(_)
AscendingSeq(set) ==
    IF set = {} THEN <<>>
    ELSE LET least == CHOOSE x \in set : \A y \in set : x <= y
         IN <<least>> \o AscendingSeq(set \ {least})

\* selections of distinct valid unit indices: one tuple per unit type of
\* interest, the tuple of a unit type holding units of any hidden layer
RateInputs(net) ==
    LET w == HiddenWidths(net)
        picks == {sets \in [1..Len(w) -> SUBSET (0..(MaxLen - 1))] :
                     \A l \in 1..Len(w) : \A u \in sets[l] : u < w[l]}
    IN { [kind |-> "rate",
          sel |-> << [l \in 1..Len(w) |-> AscendingSeq(sets[l])] >>,
          utype_list |-> utype_list] :
            sets \in picks,
            utype_list \in {ul \in {<<"NEURON">>, <<"FILTER">>} :
                               ul[1] \in Range(utypes_of(net.layer_types))} }

\* the object and a selection of which the rate is asked
InitRate ==
    \E net \in Nets :
       /\ InitObject(net, 1)
       /\ importance_matrix_tuple = get_importance_matrix(IVectors(net, 1)).val
       /\ shuffle_perm = Rotated(SumSeq(HiddenWidths(net)))
       /\ task_to_forget = <<1>>
       /\ policy = "MEAN"
       /\ layerwise_pruning = FALSE
       /\ DefaultNumerics
       /\ fx_input \in RateInputs(net)

\* importance vectors of a network that grew with the tasks: the vector of
\* task t has the units the layer had after task t, the newest task the most
GrownVectors(net, pat, missing) ==
    LET full == IVectors(net, pat)
    IN [t \in 1..NTasks |->
          [l \in 1..Len(full[t]) |->
             SubSeq(full[t][l], 1, Len(full[t][l]) - missing[t][l])]]

\* units a layer had not yet at a task: none at the newest, and never more
\* at a later task than at an earlier one
GrowthChoices(net) ==
    LET w == HiddenWidths(net)
    IN {missing \in [1..NTasks -> [1..Len(w) -> 0..1]] :
          /\ \A l \in 1..Len(w) : missing[NTasks][l] = 0
          /\ \A t \in 1..(NTasks - 1) : \A l \in 1..Len(w) : missing[t][l] >= missing[t + 1][l]}

\* the object before its importance matrices are built
InitBuild ==
    \E net \in Nets, pat \in {1, 2} : \E missing \in GrowthChoices(net) :
       /\ InitObjectWith(net, GrownVectors(net, pat, missing))
       /\ importance_matrix_tuple = <<>>
       /\ shuffle_perm = Rotated(SumSeq(HiddenWidths(net)))
       /\ task_to_forget = <<1>>
       /\ policy = "MEAN"
       /\ layerwise_pruning = FALSE
       /\ DefaultNumerics
       /\ fx_input = [kind |-> "build"]

\* importance vectors whose vector of task task_id has, in layer l, delta[l]
\* units more than the vectors of the other tasks
VectorsWithOneResized(net, pat, task_id, delta) ==
    LET w == HiddenWidths(net)
    IN [t \in 1..NTasks |->
          [l \in 1..Len(w) |->
             [u \in 1..(w[l] + (IF t = task_id THEN delta[l] ELSE 0)) |->
                ImportanceValue(pat, t, SumSeq(SubSeq(w, 1, l - 1)) + u - 1)]]]

\* the object with the importances of the first `stored` tasks saved online,
\* before the importance of the next task is saved: its vector is one unit
\* narrower than the stored matrix, as wide, or one unit wider, layer by layer
InitOnline ==
    \E net \in Nets, pat \in {1, 2}, stored \in 0..(NTasks - 1) :
       \E delta \in [1..Len(HiddenWidths(net)) -> {-1, 0, 1}] :
          /\ InitObjectWith(net, VectorsWithOneResized(net, pat, stored + 1, delta))
          /\ importance_matrix_tuple =
                IF stored = 0 THEN <<>>
                ELSE [l \in 1..Len(HiddenWidths(net)) |->
                        SubSeq(get_importance_matrix(IVectors(net, pat)).val[l], 1, stored)]
          /\ shuffle_perm = Rotated(SumSeq(HiddenWidths(net)))
          /\ task_to_forget = <<1>>
          /\ policy = "MEAN"
          /\ layerwise_pruning = FALSE
          /\ DefaultNumerics
          /\ fx_input = [kind |-> "save_online", task_id |-> stored + 1]

InitSel ==
    /\ InitSelect \/ InitRate \/ InitBuild \/ InitOnline
    /\ NoLoop
    /\ pc = "fx"
    /\ fx_result = [op |-> "none"]

\* the vector the policy ranks by ("deviated"), for the policies that go
\* through get_units_with_task_related_deviation with all arguments given
CriterionOfPolicy(imt, task_ids, pol, kwargs) ==
    CASE pol \in {"MEAN+DEV"} \cup NumericPolicies ->
            Deviated(imt, task_ids, kwargs.mixing_coeff, kwargs.relatedness_type, kwargs.tau, "mean")
      [] pol = "MAX+DEV" ->
            Deviated(imt, task_ids, kwargs.mixing_coeff, kwargs.relatedness_type, kwargs.tau, "max")
      [] pol = "CONST" ->
            Deviated(imt, task_ids, kwargs.mixing_coeff, "constant", kwargs.tau, "mean")
      [] pol = "ALL_MEAN" ->
            Deviated(imt, <<>>, [num |-> 0, den |-> 1], "constant", 0, "mean")
      [] pol = "ALL_CONST" ->
            Deviated(imt, <<>>, kwargs.mixing_coeff, "constant", kwargs.tau, "mean")

HarnessUnchanged ==
    UNCHANGED <<fx_input, cfgVars, argVars, modelVars, histVars, loopVars, ghostVars>>

\* the selection of the policy: what selective_forget gets as unit_indexes
ApplySelect ==
    /\ pc = "fx" /\ fx_result.op = "none" /\ fx_input.kind = "select"
    /\ fx_result' = [op |-> "select",
                     res |-> SelectUnits(importance_matrix_tuple, layer_types, layerwise_pruning,
                                         shuffle_perm, task_to_forget, fx_input.count, policy,
                                         fx_input.utype, params_of_utype[fx_input.utype])]
    /\ HarnessUnchanged

\* the criterion the selection is ranked by
ApplyCriterion ==
    /\ pc = "fx" /\ fx_result.op = "none" /\ fx_input.kind = "select"
    /\ policy \in MixingPolicies \cup ConstPolicies
    /\ params_of_utype[fx_input.utype].given =
          (IF policy \in ConstPolicies THEN {"mixing_coeff", "tau"} ELSE DeviationArgs)
    /\ fx_result' = [op |-> "criterion",
                     res |-> CriterionOfPolicy(importance_matrix_tuple, task_to_forget, policy,
                                               params_of_utype[fx_input.utype])]
    /\ HarnessUnchanged

\* get_importance_task_related_deviation with the kernel and tau configured
ApplyDeviation ==
    /\ pc = "fx" /\ fx_result.op = "none" /\ fx_input.kind = "select"
    /\ policy \in MixingPolicies \cup ConstPolicies
    /\ fx_result' = [op |-> "deviation",
                     res |-> get_importance_task_related_deviation(
                                importance_matrix_tuple, task_to_forget,
                                params_of_utype[fx_input.utype].relatedness_type,
                                params_of_utype[fx_input.utype].tau)]
    /\ HarnessUnchanged

\* get_parameter_level_pruning_rate of a selection
ApplyRate ==
    /\ pc = "fx" /\ fx_result.op = "none" /\ fx_input.kind = "rate"
    /\ fx_result' = [op |-> "rate",
                     val |-> get_parameter_level_pruning_rate(layer_types, weight_shapes,
                                                              fx_input.sel, fx_input.utype_list)]
    /\ HarnessUnchanged

\* get_importance_matrix
ApplyBuild ==
    /\ pc = "fx" /\ fx_result.op = "none" /\ fx_input.kind = "build"
    /\ fx_result' = [op |-> "build", res |-> get_importance_matrix(i_vectors)]
    /\ importance_matrix_tuple' =
          IF get_importance_matrix(i_vectors).kind = "ok"
          THEN get_importance_matrix(i_vectors).val ELSE importance_matrix_tuple
    /\ UNCHANGED <<params, old_params_list, params_ref, layer_to_removed_unit_set>>
    /\ UNCHANGED <<fx_input, cfgVars, argVars, histVars, loopVars, ghostVars>>

\* save_online_importance_matrix(task_id); the matrices as they were are
\* kept in the result for comparison
ApplySaveOnline ==
    /\ pc = "fx" /\ fx_result.op = "none" /\ fx_input.kind = "save_online"
    /\ fx_result' = [op |-> "save_online", before |-> importance_matrix_tuple,
                     res |-> save_online_importance_matrix(importance_matrix_tuple,
                                                           i_vectors[fx_input.task_id])]
    /\ importance_matrix_tuple' =
          save_online_importance_matrix(importance_matrix_tuple, i_vectors[fx_input.task_id]).val
    /\ UNCHANGED <<params, old_params_list, params_ref, layer_to_removed_unit_set>>
    /\ UNCHANGED <<fx_input, cfgVars, argVars, histVars, loopVars, ghostVars>>

NextSel ==
    \/ ApplySelect \/ ApplyCriterion \/ ApplyDeviation \/ ApplyRate \/ ApplyBuild
    \/ ApplySaveOnline

SpecSel == InitSel /\ [][NextSel]_vars

-----------------------------------------------------------------------------
(* Properties of the pruning rate as a function *)

\* units of hidden layer l the selection given to the rate names
RateSelected(l) ==
    UNION {Range(fx_input.sel[x][l]) : x \in 1..Len(fx_input.sel)}

\* every unit of every layer whose unit type is of interest is selected
AllOfInterestSelected ==
    \A p \in 1..Len(layer_types) :
       get_utype_from_layer_type(layer_types[p]) \in Range(fx_input.utype_list) =>
          /\ p <= NumHidden
          /\ RateSelected(p) = 0..(HiddenUnits(p) - 1)

-----------------------------------------------------------------------------
(* Properties of the unit selection *)

\* the mean importance of the units over the tasks that are not forgotten, times their number
MeanOverRemembered ==
    [g \in 0..(AllUnits - 1) |->
        SumSeq([t \in 1..NTasks |->
                  IF t \in Range(task_to_forget) THEN 0
                  ELSE ConcatLayers(importance_matrix_tuple)[t][g + 1]])]

\* the global indices of the units a selection names, as a set
SelectedGlobal(sel) ==
    UNION {{LayerStart(l) + sel[l][x] : x \in 1..Len(sel[l])} : l \in 1..Len(sel)}

\* C14: with layerwise pruning every layer contributes the first
\* floor(n_l * count / total_units) entries of its own ascending ranking,
\* n_l the units of the layer and total_units the units of all layers; with
\* layers of 4 and 6 units and count 3 that is 1 + 1 = 2 units.
C14_LayerwiseFloorShare ==
    (/\ fx_result.op = "select" /\ layerwise_pruning /\ policy = "MEAN"
     /\ fx_result.res.kind = "ok") =>
       /\ \A l \in 1..NumHidden :
             /\ Len(fx_result.res.val[l]) = (HiddenUnits(l) * fx_input.count) \div AllUnits
             /\ \A u \in Range(fx_result.res.val[l]) :
                   \A v \in (0..(HiddenUnits(l) - 1)) \ Range(fx_result.res.val[l]) :
                      MeanOverRemembered[LayerStart(l) + u] <= MeanOverRemembered[LayerStart(l) + v]
       /\ (layer_types = Net46.layer_types /\ weight_shapes = Net46.weight_shapes
           /\ fx_input.count = 3) =>
             Len(fx_result.res.val[1]) = 1 /\ Len(fx_result.res.val[2]) = 1

\* global indices of the hidden units of a unit type
GlobalOfType(utype) ==
    UNION {LayerStart(l)..(LayerEnd(l) - 1) :
             l \in {m \in 1..NumHidden : get_utype_from_layer_type(layer_types[m]) = utype}}

Max(a, b) == IF a > b THEN a ELSE b
Min(a, b) == IF a < b THEN a ELSE b

\* C15: without layerwise pruning MEAN returns exactly min(count, units of
\* the requested type) units, partitioned by layer, and every returned unit
\* has a mean importance over the tasks not forgotten that is at most that
\* of every unit of the type that was not returned.
C15_MeanReturnsLeastImportant ==
    (/\ fx_result.op = "select" /\ ~layerwise_pruning /\ policy = "MEAN"
     /\ fx_result.res.kind = "ok") =>
       /\ Len(fx_result.res.val) = NumHidden
       /\ NumSelected(fx_result.res.val) =
             Min(fx_input.count, Cardinality(GlobalOfType(fx_input.utype)))
       /\ Cardinality(SelectedGlobal(fx_result.res.val)) = NumSelected(fx_result.res.val)
       /\ \A g \in SelectedGlobal(fx_result.res.val) :
             \A h \in GlobalOfType(fx_input.utype) \ SelectedGlobal(fx_result.res.val) :
                MeanOverRemembered[g] <= MeanOverRemembered[h]

\* C16: units with equal criterion are ranked by ascending global index (a
\* stable sort), so a returned unit never has the criterion of a unit of the
\* type that was not returned and a larger index than it; with layers of 4
\* and 6 units, importances of ones except task 2, task 2 forgotten and
\* count 2, MEAN returns the global indices 0 and 1.  Checked where the
\* band of the unit type is the type's own (at most two unit types).
C16_TiesByAscendingIndex ==
    (/\ fx_result.op = "select" /\ ~layerwise_pruning /\ policy = "MEAN"
     /\ fx_result.res.kind = "ok"
     /\ Cardinality(Range(utypes_of(layer_types))) <= 2) =>
       /\ \A g \in SelectedGlobal(fx_result.res.val) :
             \A h \in GlobalOfType(fx_input.utype) \ SelectedGlobal(fx_result.res.val) :
                \/ MeanOverRemembered[g] < MeanOverRemembered[h]
                \/ MeanOverRemembered[g] = MeanOverRemembered[h] /\ g < h
       /\ (/\ layer_types = Net46.layer_types /\ weight_shapes = Net46.weight_shapes
           /\ i_vectors = OnesButTask2(Net46) /\ task_to_forget = <<2>>
           /\ fx_input.count = 2) =>
             fx_result.res.val = << <<0, 1>>, <<>> >>

-----------------------------------------------------------------------------
(* Properties of the ranking criterion and of the deviation *)

\* the tasks that are not forgotten
Remembered == {t \in 1..NTasks : t \notin Range(task_to_forget)}

\* the largest importance of the units over the tasks that are not forgotten
MaxOverRemembered ==
    [g \in 0..(AllUnits - 1) |->
        CHOOSE x \in {ConcatLayers(importance_matrix_tuple)[t][g + 1] : t \in Remembered} :
           \A t \in Remembered : ConcatLayers(importance_matrix_tuple)[t][g + 1] <= x]

\* the keyword arguments of the request
FxKwargs == params_of_utype[fx_input.utype]

\* the deviation of the units for the kernel and tau of the request
FxDeviation ==
    get_importance_task_related_deviation(importance_matrix_tuple, task_to_forget,
                                          FxKwargs.relatedness_type, FxKwargs.tau)

\* base of the criterion in the scale of the criterion (times 10 * R * R)
BaseOfPolicy(g) ==
    IF policy = "MAX+DEV"
    THEN 10 * Cardinality(Remembered) * Cardinality(Remembered) * MaxOverRemembered[g]
    ELSE 10 * Cardinality(Remembered) * MeanOverRemembered[g]

\* C17: for MEAN+DEV and MAX+DEV the criterion of every unit is
\* mixing_coeff * deviation + (1 - mixing_coeff) * base, base the mean
\* (MEAN+DEV) or the maximum (MAX+DEV) over the tasks not forgotten, for
\* every mixing_coeff: zero, positive or negative.
C17_MixedForEveryCoefficient ==
    (/\ fx_result.op = "criterion" /\ policy \in {"MEAN+DEV", "MAX+DEV"}
     /\ FxDeviation.kind = "ok") =>
       /\ fx_result.res.kind = "ok"
       /\ \A g \in 0..(AllUnits - 1) :
             fx_result.res.val[g + 1] =
                FxKwargs.mixing_coeff.num * FxDeviation.val[g + 1]
                + (FxKwargs.mixing_coeff.den - FxKwargs.mixing_coeff.num) * BaseOfPolicy(g)

\* the deviation of the units with the constant kernel
ConstantDeviation ==
    get_importance_task_related_deviation(importance_matrix_tuple, task_to_forget,
                                          "constant", FxKwargs.tau).val

\* C18: CONST ranks the units by the deviation of the constant kernel alone:
\* the order of the criterion is the order of that deviation, whatever the
\* mean or maximum importance of the units and whatever mixing coefficient
\* is configured.
C18_ConstRanksByDeviationAlone ==
    (fx_result.op = "criterion" /\ policy = "CONST" /\ fx_result.res.kind = "ok") =>
       \A g, h \in 1..AllUnits :
          fx_result.res.val[g] < fx_result.res.val[h] <=> ConstantDeviation[g] < ConstantDeviation[h]

\* the importance of unit g for task t
ImportanceOf(t, g) == ConcatLayers(importance_matrix_tuple)[t][g + 1]

\* C19: with the constant kernel the deviation of every unit is the mean,
\* over the to-remember rows, of the absolute difference between the row's
\* importance and the to-remember mean of the unit, without weights (here
\* times 10 * R * R), whatever tau is; the check of the mean weight against
\* (0.1, 0.9) is not applied.
C19_ConstantKernelIsPlainDeviation ==
    (fx_result.op = "deviation" /\ FxKwargs.relatedness_type = "constant") =>
       /\ fx_result.res.kind = "ok"
       /\ \A g \in 0..(AllUnits - 1) :
             fx_result.res.val[g + 1] =
                10 * SumSeq([t \in 1..NTasks |->
                               IF t \in Remembered
                               THEN Abs(Cardinality(Remembered) * ImportanceOf(t, g)
                                        - MeanOverRemembered[g])
                               ELSE 0])

\* the constant kernel with a non-zero deviation, tau = 0 and tanh values
\* that would fail the range check of the other kernels
C19_Witness ==
    /\ fx_result.op = "deviation"
    /\ FxKwargs.relatedness_type = "constant"
    /\ FxKwargs.tau = 0
    /\ Cardinality(Remembered) = 2
    /\ ~RhoInRange(Rho("symmetric_unit_level", 2, AllUnits))
    /\ \E g, h \in 1..AllUnits : fx_result.res.val[g] > 0 /\ fx_result.res.val[h] # fx_result.res.val[g]

\* ---------------------------------------------------------------------
\* Properties of the importance matrices as built from the vectors
\* ---------------------------------------------------------------------

\* C20: get_importance_matrix over T tasks yields one matrix per hidden
\* layer, each with exactly T rows in ascending task order; row t is task
\* t's importance vector followed on the right by zeros up to the width of
\* the layer (the width of the newest task's vector), and no value of any
\* task's vector is cut off.
C20_BuildPadsRightAndStacks ==
    fx_result.op = "build" =>
       /\ fx_result.res.kind = "ok"
       /\ importance_matrix_tuple = fx_result.res.val
       /\ Len(fx_result.res.val) = Len(i_vectors[NTasks])
       /\ \A l \in 1..Len(fx_result.res.val) :
             /\ Len(fx_result.res.val[l]) = NTasks
             /\ \A t \in 1..NTasks :
                   LET row == fx_result.res.val[l][t]
                       iv == i_vectors[t][l]
                   IN /\ Len(row) = Len(i_vectors[NTasks][l])
                      /\ Len(iv) <= Len(row)
                      /\ \A u \in 1..Len(row) :
                            row[u] = IF u <= Len(iv) THEN iv[u] ELSE 0

\* matrices built where an older task's vector is narrower than the layer
\* and ends in a non-zero value
C20_Witness ==
    /\ fx_result.op = "build"
    /\ fx_result.res.kind = "ok"
    /\ \E l \in 1..Len(i_vectors[NTasks]) : \E t \in 1..(NTasks - 1) :
          /\ Len(i_vectors[t][l]) > 0
          /\ Len(i_vectors[t][l]) < Len(i_vectors[NTasks][l])
          /\ i_vectors[t][l][Len(i_vectors[t][l])] # 0
          /\ fx_result.res.val[l][t][Len(i_vectors[NTasks][l])] = 0

\* width of the stored matrix of layer l before the call, 0 with none stored
StoredWidth(l) == IF fx_result.before = <<>> THEN 0 ELSE WidthOf(fx_result.before[l])

\* rows of the stored matrix of layer l before the call
StoredRows(l) == IF fx_result.before = <<>> THEN 0 ELSE Len(fx_result.before[l])

\* v is w followed by zeros only
IsZeroPadded(v, w) ==
    /\ Len(v) >= Len(w)
    /\ \A u \in 1..Len(v) : v[u] = IF u <= Len(w) THEN w[u] ELSE 0

\* C21: save_online_importance_matrix succeeds whether the vector of the new
\* task is wider or narrower than the stored matrix; every layer gains
\* exactly one row, the new task's, all rows have the larger of the two
\* widths, the narrower side being zero-padded on the right, and every
\* stored value is kept where it was.
C21_AppendOnlinePadsNarrower ==
    fx_result.op = "save_online" =>
       /\ fx_result.res.kind = "ok"
       /\ importance_matrix_tuple = fx_result.res.val
       /\ \A l \in 1..NumHidden :
             LET new == fx_result.res.val[l]
                 iv == i_vectors[fx_input.task_id][l]
             IN /\ Len(new) = StoredRows(l) + 1
                /\ \A r \in 1..Len(new) : Len(new[r]) = Max(StoredWidth(l), Len(iv))
                /\ \A r \in 1..StoredRows(l) : IsZeroPadded(new[r], fx_result.before[l][r])
                /\ IsZeroPadded(new[Len(new)], iv)

-----------------------------------------------------------------------------
(* Failures of the index mapping and of the policy dispatch *)

\* C22: asked for a unit type that none of the layer types has,
\* _get_indices_of_certain_utype fails with an error (its assertion) and
\* returns no indices.
C22_AbsentUnitTypeRaises ==
    (fx_result.op = "filter" /\ fx_result.utype \notin Range(utypes_of(layer_types))) =>
       /\ fx_result.res.kind = "raise"
       /\ fx_result.res.val = <<>>

\* FILTER asked of a network of fc layers, with indices to return
C22_Witness ==
    /\ fx_result.op = "filter"
    /\ fx_result.utype = "FILTER"
    /\ Range(utypes_of(layer_types)) = {"NEURON"}
    /\ Len(fx_input) = 3
    /\ fx_result.res.kind = "raise"

\* C23: selective_forget called with a policy name that is not one of MEAN,
\* MAX, MEAN+DEV, MAX+DEV, CONST, RANDOM, ALL_MEAN, ALL_CONST fails with an
\* error and zeroes no unit: the live parameters are those of the snapshot
\* the call pushed, and no other policy is run in place of the name.
C23_UnknownPolicyRaises ==
    (last_op.op \in {"forget", "forget_raised"} /\ policy \notin SupportedPolicies) =>
       /\ last_op.op = "forget_raised"
       /\ params = old_params_list[Len(old_params_list)]

-----------------------------------------------------------------------------
(* The removed-unit sets, the snapshots and the live parameters *)

\* unit u (0-based) of a scope is zero in a parameter mapping: its bias and
\* its weight column or filter
UnitIsZero(mapping, scope, u) ==
    /\ mapping[scope].biases[u + 1] = 0
    /\ \A r \in 1..Len(mapping[scope].weight) : mapping[scope].weight[r][u + 1] = 0

\* every set keeps its members, and a unit that a call of selective_forget
\* (the step that pushes a snapshot) zeroes in the live parameters is in the
\* set of its layer after the step
C24_Step ==
    \/ CallClearExperiments
    \/ \A scope \in DOMAIN layer_to_removed_unit_set :
          /\ layer_to_removed_unit_set[scope] \subseteq layer_to_removed_unit_set'[scope]
          /\ \A u \in 0..(Len(params[scope].biases) - 1) :
                ( /\ Len(old_params_list') > Len(old_params_list)
                  /\ ~UnitIsZero(params, scope, u)
                  /\ UnitIsZero(params', scope, u) )
                   => u \in layer_to_removed_unit_set'[scope]

\* C24: the removed-unit set of every layer only grows: each index a
\* mutation zeroes is added to the set of its layer, and no index leaves a
\* set except by clear_experiments; recover_recent_params and
\* recover_old_params leave the sets as they are.
C24_RemovedSetsGrow == [][C24_Step]_vars

\* units were zeroed and recorded, then the parameters were recovered: the
\* set still holds them
C24_Witness ==
    /\ last_op.op = "recover" /\ last_op.prev = "forget"
    /\ \E scope \in DOMAIN layer_to_removed_unit_set :
          /\ Cardinality(layer_to_removed_unit_set[scope]) >= 2
          /\ \A u \in layer_to_removed_unit_set[scope] : ~UnitIsZero(params, scope, u)

\* a step that zeroes units of the live model pushes exactly one snapshot,
\* and that snapshot is the live parameters as they were before the step
C25_Step ==
    (\E scope \in DOMAIN params : \E u \in 0..(Len(params[scope].biases) - 1) :
        ~UnitIsZero(params, scope, u) /\ UnitIsZero(params', scope, u)
        /\ u \in layer_to_removed_unit_set'[scope]
        /\ last_op'.op = "forget")
    => /\ Len(old_params_list') = Len(old_params_list) + 1
       /\ old_params_list'[Len(old_params_list')] = params
       /\ SubSeq(old_params_list', 1, Len(old_params_list)) = old_params_list

\* C25: whenever selective_forget zeroes units of the live model, the
\* snapshot on top of the stack is the live parameters as they were
\* immediately before the zeroing: the snapshot is pushed first and nothing
\* changes the live parameters between the push and the zeroing.
C25_SnapshotIsPreMutation == [][C25_Step]_vars

\* a second mutation without a recovery in between: its snapshot holds the
\* unit the first mutation zeroed, and differs from the first snapshot
C25_Witness ==
    /\ last_op.op = "forget" /\ last_op.prev = "forget"
    /\ Len(old_params_list) = 2
    /\ old_params_list[2] # old_params_list[1]
    /\ params # old_params_list[2]

\* unit u (0-based) of a scope has the same bias and weights in both mappings
UnitIsSame(before, after, scope, u) ==
    /\ after[scope].biases[u + 1] = before[scope].biases[u + 1]
    /\ \A r \in 1..Len(before[scope].weight) :
          after[scope].weight[r][u + 1] = before[scope].weight[r][u + 1]

\* a call of selective_forget that returns: the units of the arrays it
\* returns are zero afterwards, every other unit is as it was
C26_Step ==
    Len(list_of_unit_indices_by_layer') = Len(list_of_unit_indices_by_layer) + 1 =>
       LET unit_indexes == list_of_unit_indices_by_layer'[Len(list_of_unit_indices_by_layer')]
       IN \A l \in 1..Len(layer_types) :
             \A u \in 0..(UnitsOf(weight_shapes[l]) - 1) :
                IF l <= Len(unit_indexes) /\ u \in Range(unit_indexes[l])
                THEN UnitIsZero(params', _get_scope_list(layer_types)[l], u)
                ELSE UnitIsSame(params, params', _get_scope_list(layer_types)[l], u)

\* C26: selective_forget changes exactly the selected units: for every layer
\* l and every index u of the array it returns for l, the weight column or
\* filter u and the bias u of the layer's scope are zero, and every other
\* weight and bias of the model, those of the final layer included, is
\* unchanged.
C26_MutateExactlySelected == [][C26_Step]_vars

-----------------------------------------------------------------------------
(* The importance matrix over the loop *)

\* the importance matrix of the model as trained, nothing zeroed
BaselineMatrix == get_importance_matrix(i_vectors).val

\* C27: once the importance matrix exists no step of the loop (select,
\* mutate, evaluate, record, recover) changes it, and it is the matrix of the
\* model as it was before the first mutation, built by the first call of
\* selective_forget: every step and every unit type is ranked against the
\* same baseline.
C27_MatrixFixedOverLoop ==
    /\ importance_matrix_tuple \in {<<>>, BaselineMatrix}
    /\ Len(old_params_list) > 0 => importance_matrix_tuple = BaselineMatrix

\* a later step of a sweep with two unit types: units are zeroed in the live
\* model and the matrix still holds their importances
C27_Witness ==
    /\ pc = "rate" /\ i = 2
    /\ Len(utype_to_one_step_units) = 2
    /\ ZeroedUnits >= 2
    /\ importance_matrix_tuple = BaselineMatrix
    /\ \E l \in 1..NumHidden : \E u \in layer_to_removed_unit_set[_get_scope_list(layer_types)[l]] :
          /\ params[_get_scope_list(layer_types)[l]].biases[u + 1] = 0
          /\ importance_matrix_tuple[l][NTasks][u + 1] > 0

-----------------------------------------------------------------------------
(* Selections for growing counts *)

\* what the same request selects with one unit more
FxSelectOneMore ==
    SelectUnits(importance_matrix_tuple, layer_types, layerwise_pruning, shuffle_perm,
                task_to_forget, fx_input.count + 1, policy, fx_input.utype,
                params_of_utype[fx_input.utype])

\* every unit of the selection sel is in the selection more, layer by layer
IsNestedIn(sel, more) ==
    /\ more.kind = "ok"
    /\ Len(more.val) = Len(sel)
    /\ \A l \in 1..Len(sel) : Range(sel[l]) \subseteq Range(more.val[l])

\* C28: selections are nested in the count: with the policy, the forgotten
\* tasks, the unit type and the importance matrix fixed, every unit selected
\* with count k is selected with count k + 1 as well, with and without
\* layerwise pruning.
C28_SelectionsNested ==
    (fx_result.op = "select" /\ fx_result.res.kind = "ok") =>
       IsNestedIn(fx_result.res.val, FxSelectOneMore)

\* one layer's selection grows with the count and another's, not empty, stays
GrowsInOneLayer(sel, more) ==
    \E l, m \in 1..Len(sel) :
       /\ Len(more.val[l]) > Len(sel[l])
       /\ more.val[m] = sel[m]
       /\ Len(sel[m]) > 0

\* layerwise pruning where one more unit makes one layer's share grow and
\* leaves the other's as it is
C28_Witness ==
    /\ fx_result.op = "select" /\ fx_result.res.kind = "ok"
    /\ layerwise_pruning
    /\ NumSelected(fx_result.res.val) >= 2
    /\ GrowsInOneLayer(fx_result.res.val, FxSelectOneMore)

-----------------------------------------------------------------------------
(* The removed-unit sets against the live parameters *)

\* C29: between the steps of the loop, the recovery of the step included,
\* every unit recorded in layer_to_removed_unit_set for a layer has a zero
\* weight column or filter and a zero bias in the live parameters of the layer.
C29_RemovedSetsAgreeWithModel ==
    (pc \in {"loop", "done"} /\ i > 0) =>
       \A scope \in DOMAIN layer_to_removed_unit_set :
          \A u \in layer_to_removed_unit_set[scope] : UnitIsZero(params, scope, u)

-----------------------------------------------------------------------------
(* What the unit-type filter returns *)

\* y is x with some elements left out
RECURSIVE IsSubsequence(_, _)
IsSubsequence(y, x) ==
    IF y = <<>> THEN TRUE
    ELSE IF x = <<>> THEN FALSE
    ELSE IF Head(y) = Head(x) THEN IsSubsequence(Tail(y), Tail(x))
    ELSE IsSubsequence(y, Tail(x))

\* C30: whenever _get_indices_of_certain_utype returns without raising, it
\* returns an array that is a subsequence of ordered_indices, never a
\* missing value, also when the requested unit type is the type of the
\* final layer only.
C30_FilterReturnsAnArray ==
    (fx_result.op = "filter" /\ fx_result.res.kind # "raise") =>
       /\ fx_result.res.kind = "ok"
       /\ IsSubsequence(fx_result.res.val, fx_input)

====
